---- MODULE Spec2Model ----
(***************************************************************************)
(* Handover drafts: the sign-off state machine (services/signoff_manager), *)
(* draft generation (services/draft_generator), export (services/exporter, *)
(* routers/handover_exports) and the item operations of the drafts router  *)
(* (routers/handover_drafts), over the tables of the persistent store.     *)
(*                                                                         *)
(* A table whose rows are referred to by id (drafts, sections, items,      *)
(* exports) is a sequence: a row's id is its index, so a fresh uuid4 is    *)
(* the next index.  A table whose rows are only inserted and counted       *)
(* (signoffs, edit history, ledger events) is a bag of rows without id.    *)
(* Timestamps (created_at, updated_at, signed_at) are left out; creation   *)
(* order is the order of the ids.                                          *)
(***************************************************************************)
EXTENDS Naturals, Sequences, FiniteSets, Bags, TLC

\* ------------------------------------------------------------- bounds
MaxDrafts == 2        \* drafts generate_draft may create
MaxExports == 1       \* export records export_handover_draft may create
MaxEdits == 1         \* edits of one item (edit_count)
MaxItems == 3         \* item rows while a draft is under review (it starts with 2)
MaxServed == 2        \* requests one worker serves while requests overlap
MaxMerged == 4        \* item rows while merged items are merged again
MaxEmails == 3        \* messages the fetch stage returns in one run
MaxConcurrent == 2    \* largest max_concurrent a stage is built with
MaxStart == 2         \* largest start_index the extract stage is given
MaxGroups == 2        \* topic groups handed to the merge stage
MaxActions == 2       \* actions in one merger response
MaxSignoffs == 3      \* signoff rows while store calls fail

\* ------------------------------------------------------- value domains
Users == {"u1", "u2"}
NoUser == "none"                   \* Python None for a user id
Yachts == {"y1"}
ExportTypes == {"pdf", "html", "email"}
DraftIds == 1 .. MaxDrafts         \* draft ids a request may name
EditTexts == {"t1"}                \* edited_text of an edit request
MergeTexts == {"m1"}               \* merged_text of a merge request
MergeLens == {1, 2, 3}             \* len(item_ids) of a merge request

DRAFT == "DRAFT"
IN_REVIEW == "IN_REVIEW"
ACCEPTED == "ACCEPTED"
SIGNED == "SIGNED"
EXPORTED == "EXPORTED"
HandoverDraftState == {DRAFT, IN_REVIEW, ACCEPTED, SIGNED, EXPORTED}

\* SignoffManager.STATE_TRANSITIONS
STATE_TRANSITIONS ==
    [s \in HandoverDraftState |->
        CASE s = DRAFT -> {IN_REVIEW}
          [] s = IN_REVIEW -> {ACCEPTED}
          [] s = ACCEPTED -> {SIGNED}
          [] s = SIGNED -> {EXPORTED}
          [] s = EXPORTED -> {}]

\* DraftGenerator.BUCKET_ORDER
BUCKET_ORDER ==
    <<"Command", "Engineering", "ETO_AVIT", "Deck",
      "Interior", "Galley", "Security", "Admin_Compliance">>

VARIABLES
    entries,     \* handover_entries
    drafts,      \* handover_drafts
    sections,    \* handover_draft_sections
    items,       \* handover_draft_items
    edits,       \* handover_draft_edits (bag)
    signoffs,    \* handover_signoffs (bag)
    exports,     \* handover_exports
    ledger,      \* ledger_events (bag)
    res,         \* the last request and what it returned or raised
    req,         \* requests in flight, per worker (overlapping requests only)
    pipe         \* the email-to-handover pipeline (its stages and their data)

tables == <<entries, drafts, sections, items, edits, signoffs, exports, ledger>>
vars == <<entries, drafts, sections, items, edits, signoffs, exports, ledger, res, req, pipe>>

\* ------------------------------------------------------------ results
\* op: the operation; draft_id, user_id, arg: its arguments (arg: the vessel,
\* the export id or type; for an item operation that went through, the item
\* id or the set of item ids merged); out: "ok" or the error raised; state: the draft state
\* the error message names ("" when it names none); ret: the id returned (0
\* when none).
Result(op, draft_id, user_id, arg, out, state, ret) ==
    [op |-> op, draft_id |-> draft_id, user_id |-> user_id, arg |-> arg,
     out |-> out, state |-> state, ret |-> ret]

NoResult == Result("none", 0, NoUser, "", "ok", "", 0)

Ok == [out |-> "ok", state |-> ""]
Raise(out, state) == [out |-> out, state |-> state]

\* --------------------------------------------------- store primitives
\* .eq("id", id).single(): the row, when there is one
HasRow(table, id) == id \in DOMAIN table

\* SignoffManager._update_draft_state: an unconditional write of the state
\* column of the row with this id (no row, no change)
_update_draft_state(ds, draft_id, new_state) ==
    [i \in DOMAIN ds |->
        IF i = draft_id THEN [ds[i] EXCEPT !.state = new_state] ELSE ds[i]]

\* SignoffManager._create_signoff: one more row in handover_signoffs
_create_signoff(so, draft_id, user_id, signoff_type) ==
    so (+) SetToBag({[draft_id |-> draft_id, user_id |-> user_id,
                      signoff_type |-> signoff_type]})

\* SignoffManager._log_ledger_event: one more row in ledger_events
_log_ledger_event(lg, event_type, draft_id, user_id) ==
    lg (+) SetToBag({[event_type |-> event_type, entity_id |-> draft_id,
                      user_id |-> user_id]})

\* number of signoff rows of a type for a draft, whoever signed
SignoffCount(so, draft_id, signoff_type) ==
    LET rows == {r \in BagToSet(so) :
                    r.draft_id = draft_id /\ r.signoff_type = signoff_type}
        RECURSIVE Sum(_)
        Sum(S) == IF S = {} THEN 0
                  ELSE LET r == CHOOSE x \in S : TRUE
                       IN CopiesIn(r, so) + Sum(S \ {r})
    IN Sum(rows)

\* ------------------------------------------------------ draft generator
Range(f) == {f[i] : i \in DOMAIN f}

\* _get_active_draft filtering on a state name no draft carries
_get_active_draft_lowercase_state(ds, yacht_id, outgoing_user_id) ==
    LET found == {i \in DOMAIN ds :
                    /\ ds[i].yacht_id = yacht_id
                    /\ ds[i].outgoing_user_id = outgoing_user_id
                    /\ ds[i].state = "draft"}
    IN IF found = {} THEN 0
       ELSE CHOOSE i \in found : \A j \in found : j <= i

\* DraftGenerator._get_active_draft: the newest draft of this vessel and
\* outgoing user whose state is DRAFT (its id), 0 when there is none
_get_active_draft(ds, yacht_id, outgoing_user_id) ==
    LET found == {i \in DOMAIN ds :
                    /\ ds[i].yacht_id = yacht_id
                    /\ ds[i].outgoing_user_id = outgoing_user_id
                    /\ ds[i].state = DRAFT}
    IN IF found = {} THEN 0
       ELSE CHOOSE i \in found : \A j \in found : j <= i

\* DraftGenerator._fetch_candidate_entries: ids of the vessel's candidate
\* entries, newest first (the period is taken to cover every entry)
_fetch_candidate_entries(es, yacht_id) ==
    LET n == Len(es)
        newest_first == [k \in 1 .. n |-> n + 1 - k]
    IN SelectSeq(newest_first,
                 LAMBDA e : es[e].yacht_id = yacht_id /\ es[e].status = "candidate")

\* DraftGenerator._group_by_bucket: per bucket, the entries in fetched order;
\* an entry of an unknown bucket goes to Command
_group_by_bucket(es, fetched) ==
    [b \in Range(BUCKET_ORDER) |->
        SelectSeq(fetched,
                  LAMBDA e : IF es[e].presentation_bucket \in Range(BUCKET_ORDER)
                             THEN es[e].presentation_bucket = b
                             ELSE b = "Command")]

\* DraftGenerator._is_critical
_is_critical(entry) ==
    entry.risk_tags \cap {"Safety_Critical", "Compliance_Critical"} # {}

\* DraftGenerator._create_item: the row inserted for an entry
_create_item(es, draft_id, section_id, e, item_order) ==
    [draft_id |-> draft_id,
     section_id |-> section_id,
     summary_text |-> IF es[e].summary_text # "" THEN es[e].summary_text
                      ELSE es[e].narrative_text,
     item_order |-> item_order,
     domain_code |-> es[e].primary_domain,
     is_critical |-> _is_critical(es[e]),
     source_entry_ids |-> <<e>>,
     edit_count |-> 0,
     is_suppressed |-> FALSE]

\* DraftGenerator._create_sections_and_items: the buckets that get a section,
\* in BUCKET_ORDER; the k-th gets section_order k
SectionBuckets(bucketed) ==
    SelectSeq(BUCKET_ORDER, LAMBDA b : bucketed[b] # <<>>)

\* the section rows inserted for a draft
_create_section(draft_id, bucketed) ==
    LET bs == SectionBuckets(bucketed)
    IN [k \in 1 .. Len(bs) |->
           [draft_id |-> draft_id, section_bucket |-> bs[k], section_order |-> k]]

\* the item rows inserted for a draft, section after section; first_section
\* is the id of the draft's first section
RECURSIVE _create_sections_and_items(_, _, _, _, _)
_create_sections_and_items(es, draft_id, bucketed, first_section, k) ==
    LET bs == SectionBuckets(bucketed)
    IN IF k > Len(bs) THEN <<>>
       ELSE LET in_bucket == bucketed[bs[k]]
            IN [j \in 1 .. Len(in_bucket) |->
                   _create_item(es, draft_id, first_section + k - 1, in_bucket[j], j)]
               \o _create_sections_and_items(es, draft_id, bucketed, first_section, k + 1)

\* DraftGenerator._create_draft_record: the row inserted
_create_draft_record(yacht_id, outgoing_user_id, incoming_user_id) ==
    [yacht_id |-> yacht_id,
     outgoing_user_id |-> outgoing_user_id,
     incoming_user_id |-> incoming_user_id,
     state |-> DRAFT]

\* DraftGenerator.generate_draft
generate_draft(yacht_id, outgoing_user_id, incoming_user_id) ==
    LET existing == _get_active_draft(drafts, yacht_id, outgoing_user_id)
        draft_id == Len(drafts) + 1
        bucketed == _group_by_bucket(entries, _fetch_candidate_entries(entries, yacht_id))
    IN IF existing # 0
       THEN /\ res' = Result("generate_draft", existing, outgoing_user_id, yacht_id,
                             "ok", "", existing)
            /\ UNCHANGED tables
       ELSE /\ Len(drafts) < MaxDrafts
            /\ drafts' = Append(drafts,
                   _create_draft_record(yacht_id, outgoing_user_id, incoming_user_id))
            /\ sections' = sections \o _create_section(draft_id, bucketed)
            /\ items' = items \o _create_sections_and_items(
                                     entries, draft_id, bucketed, Len(sections) + 1, 1)
            /\ res' = Result("generate_draft", draft_id, outgoing_user_id, yacht_id,
                             "ok", "", draft_id)
            /\ UNCHANGED <<entries, edits, signoffs, exports, ledger>>

\* ----------------------------------------------------- sign-off manager
\* What each transition raises for the draft row it read and the calling
\* user; Ok when it goes on to write.

\* enter_review without its state check
enter_review_error_no_state_check(draft, user_id) ==
    IF draft.outgoing_user_id # user_id THEN Raise("wrong_actor", "")
    ELSE Ok

\* SignoffManager.enter_review: the checks
enter_review_error(draft, user_id) ==
    IF draft.state # DRAFT THEN Raise("invalid_state", draft.state)
    ELSE IF draft.outgoing_user_id # user_id THEN Raise("wrong_actor", "")
    ELSE Ok

\* accept_draft checking the actor before the state
accept_draft_error_actor_first(draft, user_id) ==
    IF draft.outgoing_user_id # user_id THEN Raise("wrong_actor", "")
    ELSE IF draft.state # IN_REVIEW THEN Raise("invalid_state", draft.state)
    ELSE Ok

\* accept_draft without its actor check
accept_draft_error_no_actor_check(draft, user_id) ==
    IF draft.state # IN_REVIEW THEN Raise("invalid_state", draft.state)
    ELSE Ok

\* SignoffManager.accept_draft: the checks
accept_draft_error_no_state_check(draft, user_id) ==
    IF draft.outgoing_user_id # user_id THEN Raise("wrong_actor", "")
    ELSE Ok

accept_draft_error(draft, user_id) ==
    IF draft.state # IN_REVIEW THEN Raise("invalid_state", draft.state)
    ELSE IF draft.outgoing_user_id # user_id THEN Raise("wrong_actor", "")
    ELSE Ok

\* countersign_draft without the comparison of the caller with incoming_user_id
countersign_draft_error_no_actor_check(draft, user_id) ==
    IF draft.state # ACCEPTED THEN Raise("invalid_state", draft.state)
    ELSE IF draft.incoming_user_id = NoUser THEN Raise("no_incoming_user", "")
    ELSE Ok

\* countersign_draft without the check that an incoming user is set
countersign_draft_error_no_incoming_check(draft, user_id) ==
    IF draft.state # ACCEPTED THEN Raise("invalid_state", draft.state)
    ELSE IF draft.incoming_user_id # user_id THEN Raise("wrong_actor", "")
    ELSE Ok

\* SignoffManager.countersign_draft: the checks
countersign_draft_error(draft, user_id) ==
    IF draft.state # ACCEPTED THEN Raise("invalid_state", draft.state)
    ELSE IF draft.incoming_user_id = NoUser THEN Raise("no_incoming_user", "")
    ELSE IF draft.incoming_user_id # user_id THEN Raise("wrong_actor", "")
    ELSE Ok

\* SignoffManager.mark_exported: the check
mark_exported_error(draft) ==
    IF draft.state # SIGNED THEN Raise("invalid_state", draft.state)
    ELSE Ok

\* mark_exported's second write: handover_exports.update({"draft_id": ...})
\* on the row with this id (no row, no change)
link_export(ex, export_id, draft_id) ==
    [i \in DOMAIN ex |->
        IF i = export_id THEN [ex[i] EXCEPT !.draft_id = draft_id] ELSE ex[i]]

\* A request that raised: nothing is written
Rejected(op, draft_id, user_id, arg, err) ==
    /\ res' = Result(op, draft_id, user_id, arg, err.out, err.state, 0)
    /\ UNCHANGED tables

\* SignoffManager.enter_review, run without interruption
enter_review(draft_id, user_id) ==
    IF ~HasRow(drafts, draft_id)
    THEN Rejected("enter_review", draft_id, user_id, "", Raise("not_found", ""))
    ELSE LET err == enter_review_error(drafts[draft_id], user_id)
         IN IF err.out # "ok"
            THEN Rejected("enter_review", draft_id, user_id, "", err)
            ELSE /\ drafts' = _update_draft_state(drafts, draft_id, IN_REVIEW)
                 /\ res' = Result("enter_review", draft_id, user_id, "", "ok", "", 0)
                 /\ UNCHANGED <<entries, sections, items, edits, signoffs, exports, ledger>>

\* SignoffManager.accept_draft, run without interruption
accept_draft(draft_id, user_id) ==
    IF ~HasRow(drafts, draft_id)
    THEN Rejected("accept_draft", draft_id, user_id, "", Raise("not_found", ""))
    ELSE LET err == accept_draft_error(drafts[draft_id], user_id)
         IN IF err.out # "ok"
            THEN Rejected("accept_draft", draft_id, user_id, "", err)
            ELSE /\ signoffs' = _create_signoff(signoffs, draft_id, user_id, "outgoing")
                 /\ drafts' = _update_draft_state(drafts, draft_id, ACCEPTED)
                 /\ ledger' = _log_ledger_event(ledger, "handover_accepted", draft_id, user_id)
                 /\ res' = Result("accept_draft", draft_id, user_id, "", "ok", "", 0)
                 /\ UNCHANGED <<entries, sections, items, edits, exports>>

\* SignoffManager.countersign_draft, run without interruption
countersign_draft(draft_id, user_id) ==
    IF ~HasRow(drafts, draft_id)
    THEN Rejected("countersign_draft", draft_id, user_id, "", Raise("not_found", ""))
    ELSE LET err == countersign_draft_error(drafts[draft_id], user_id)
         IN IF err.out # "ok"
            THEN Rejected("countersign_draft", draft_id, user_id, "", err)
            ELSE /\ signoffs' = _create_signoff(signoffs, draft_id, user_id, "incoming")
                 /\ drafts' = _update_draft_state(drafts, draft_id, SIGNED)
                 /\ ledger' = _log_ledger_event(ledger, "handover_signed", draft_id, user_id)
                 /\ res' = Result("countersign_draft", draft_id, user_id, "", "ok", "", 0)
                 /\ UNCHANGED <<entries, sections, items, edits, exports>>

\* SignoffManager.mark_exported, run without interruption
mark_exported(draft_id, export_id) ==
    IF ~HasRow(drafts, draft_id)
    THEN Rejected("mark_exported", draft_id, NoUser, export_id, Raise("not_found", ""))
    ELSE LET err == mark_exported_error(drafts[draft_id])
         IN IF err.out # "ok"
            THEN Rejected("mark_exported", draft_id, NoUser, export_id, err)
            ELSE /\ drafts' = _update_draft_state(drafts, draft_id, EXPORTED)
                 /\ exports' = link_export(exports, export_id, draft_id)
                 /\ res' = Result("mark_exported", draft_id, NoUser, export_id, "ok", "", 0)
                 /\ UNCHANGED <<entries, sections, items, edits, signoffs, ledger>>

\* ------------------------------------------------------------- exporter
\* HandoverExporter.export_to_pdf / export_to_html / export_to_email: the
\* state check.  Only export_to_pdf names the state it found.
export_error(draft, export_type) ==
    IF draft.state # SIGNED
    THEN IF export_type = "pdf" THEN Raise("invalid_state", draft.state)
         ELSE Raise("must_be_signed", "")
    ELSE Ok

\* HandoverExporter._create_export_record: the row inserted
_create_export_record(draft_id, export_type) ==
    [draft_id |-> draft_id, export_type |-> export_type]

\* POST /drafts/{draft_id}/export.  has_recipients: the request names
\* recipients; rendered: template rendering, PDF conversion and (email)
\* sending went through, which is up to the collaborators.
export_handover_draft(draft_id, export_type, has_recipients, rendered) ==
    IF export_type = "email" /\ ~has_recipients
    THEN Rejected("export", draft_id, NoUser, export_type, Raise("recipients_required", ""))
    ELSE IF ~HasRow(drafts, draft_id)
    THEN Rejected("export", draft_id, NoUser, export_type, Raise("not_found", ""))
    ELSE LET err == export_error(drafts[draft_id], export_type)
         IN IF err.out # "ok"
            THEN Rejected("export", draft_id, NoUser, export_type, err)
            ELSE IF ~rendered
            THEN Rejected("export", draft_id, NoUser, export_type, Raise("export_failed", ""))
            ELSE /\ Len(exports) < MaxExports
                 /\ exports' = Append(exports, _create_export_record(draft_id, export_type))
                 /\ res' = Result("export", draft_id, NoUser, export_type, "ok", "",
                                  Len(exports) + 1)
                 /\ UNCHANGED <<entries, drafts, sections, items, edits, signoffs, ledger>>

\* ------------------------------------------------ the store at start-up
\* handover_entries as the entry endpoints left it: candidate entries of the
\* vessel, two of one bucket (one safety-critical, one without a summary) and
\* one of a bucket that is not in BUCKET_ORDER.
InitialEntries ==
    << [yacht_id |-> "y1", status |-> "candidate", presentation_bucket |-> "Engineering",
        primary_domain |-> "ENG", risk_tags |-> {"Safety_Critical"},
        summary_text |-> "s1", narrative_text |-> "n1"],
       [yacht_id |-> "y1", status |-> "candidate", presentation_bucket |-> "Engineering",
        primary_domain |-> "ENG", risk_tags |-> {},
        summary_text |-> "", narrative_text |-> "n2"],
       [yacht_id |-> "y1", status |-> "candidate", presentation_bucket |-> "Bridge",
        primary_domain |-> "NAV", risk_tags |-> {"Guest_Impacting"},
        summary_text |-> "s3", narrative_text |-> "n3"] >>

Workers == {"w1", "w2"}
Idle == [pc |-> "idle", served |-> 0]
NoPipe == [stage |-> "none"]       \* no pipeline run

Init ==
    /\ entries = InitialEntries
    /\ drafts = <<>>
    /\ sections = <<>>
    /\ items = <<>>
    /\ edits = EmptyBag
    /\ signoffs = EmptyBag
    /\ exports = <<>>
    /\ ledger = EmptyBag
    /\ res = NoResult
    /\ req = [w \in Workers |-> Idle]
    /\ pipe = NoPipe

\* ------------------- requests served one at a time (no two overlap)
\* export ids a request may name: the export rows and one that does not exist
ExportIds == 1 .. (Len(exports) + 1)

\* the handover goes to another user, or to nobody yet
GenerateDraft ==
    /\ \E y \in Yachts, o \in Users :
         \E i \in (Users \ {o}) \cup {NoUser} : generate_draft(y, o, i)
    /\ UNCHANGED <<req, pipe>>

EnterReview ==
    /\ \E d \in DraftIds, u \in Users : enter_review(d, u)
    /\ UNCHANGED <<req, pipe>>

AcceptDraft ==
    /\ \E d \in DraftIds, u \in Users : accept_draft(d, u)
    /\ UNCHANGED <<req, pipe>>

CountersignDraft ==
    /\ \E d \in DraftIds, u \in Users : countersign_draft(d, u)
    /\ UNCHANGED <<req, pipe>>

MarkExported ==
    /\ \E d \in DraftIds, e \in ExportIds : mark_exported(d, e)
    /\ UNCHANGED <<req, pipe>>

ExportHandoverDraft ==
    /\ \E d \in DraftIds, t \in ExportTypes, r \in BOOLEAN, ok \in BOOLEAN :
           export_handover_draft(d, t, r, ok)
    /\ UNCHANGED <<req, pipe>>

\* The sign-off manager and the draft generator
Next ==
    \/ GenerateDraft
    \/ EnterReview
    \/ AcceptDraft
    \/ CountersignDraft
    \/ MarkExported

Spec == Init /\ [][Next]_vars

\* The same with the export endpoint
NextExport ==
    \/ GenerateDraft
    \/ EnterReview
    \/ AcceptDraft
    \/ CountersignDraft
    \/ MarkExported
    \/ ExportHandoverDraft

SpecExport == Init /\ [][NextExport]_vars

\* -------------------------------------------------------- drafts router
\* POST /drafts/{draft_id}/review: the check (the caller is not looked at)
enter_review_state_error(draft) ==
    IF draft.state # DRAFT THEN Raise("invalid_state", draft.state)
    ELSE Ok

\* the item endpoints without their state check
item_edit_error_no_state_check(draft) == Ok

\* edit_draft_item / merge_draft_items / delete_draft_item: the check of the
\* draft named in the request
item_edit_error(draft) ==
    IF draft.state # IN_REVIEW THEN Raise("invalid_state", draft.state)
    ELSE Ok

\* POST /drafts/{draft_id}/review
enter_review_state(draft_id, current_user) ==
    IF ~HasRow(drafts, draft_id)
    THEN Rejected("enter_review_state", draft_id, current_user, "", Raise("not_found", ""))
    ELSE LET err == enter_review_state_error(drafts[draft_id])
         IN IF err.out # "ok"
            THEN Rejected("enter_review_state", draft_id, current_user, "", err)
            ELSE /\ drafts' = _update_draft_state(drafts, draft_id, IN_REVIEW)
                 /\ res' = Result("enter_review_state", draft_id, current_user, "", "ok", "", 0)
                 /\ UNCHANGED <<entries, sections, items, edits, signoffs, exports, ledger>>

\* PATCH /drafts/{draft_id}/items/{item_id}
edit_draft_item(draft_id, item_id, edited_text) ==
    IF ~HasRow(drafts, draft_id)
    THEN Rejected("edit_draft_item", draft_id, NoUser, 0, Raise("not_found", ""))
    ELSE LET err == item_edit_error(drafts[draft_id])
         IN IF err.out # "ok"
            THEN Rejected("edit_draft_item", draft_id, NoUser, 0, err)
            ELSE IF ~HasRow(items, item_id)
            THEN Rejected("edit_draft_item", draft_id, NoUser, 0,
                          Raise("item_not_found", ""))
            ELSE /\ items[item_id].edit_count < MaxEdits
                 /\ edits' = edits (+) SetToBag({[item_id |-> item_id,
                                  original_text |-> items[item_id].summary_text,
                                  edited_text |-> edited_text]})
                 /\ items' = [items EXCEPT ![item_id].summary_text = edited_text,
                                           ![item_id].edit_count = @ + 1]
                 /\ res' = Result("edit_draft_item", draft_id, NoUser, item_id,
                                  "ok", "", item_id)
                 /\ UNCHANGED <<entries, drafts, sections, signoffs, exports, ledger>>

\* the orders in which the store may return the rows of an id set
Perms(S) ==
    {p \in [1 .. Cardinality(S) -> S] :
        \A i, j \in 1 .. Cardinality(S) : i # j => p[i] # p[j]}

\* combined_source_ids: the rows' source_entry_ids, one list after the other
RECURSIVE combined_source_ids(_, _)
combined_source_ids(its, rows) ==
    IF rows = <<>> THEN <<>>
    ELSE its[Head(rows)].source_entry_ids \o combined_source_ids(its, Tail(rows))

\* list(set(ids)): every id once (taken in ascending order)
RECURSIVE list_set(_)
list_set(S) ==
    IF S = {} THEN <<>>
    ELSE LET m == CHOOSE x \in S : \A y \in S : x <= y
         IN <<m>> \o list_set(S \ {m})

\* merged_item_data taking is_critical from the first row only
merged_item_data_first_critical(its, rows, merged_text) ==
    [draft_id |-> 0,
     section_id |-> its[rows[1]].section_id,
     summary_text |-> merged_text,
     item_order |-> its[rows[1]].item_order,
     domain_code |-> its[rows[1]].domain_code,
     is_critical |-> its[rows[1]].is_critical,
     source_entry_ids |-> list_set(Range(combined_source_ids(its, rows))),
     edit_count |-> 0,
     is_suppressed |-> FALSE]

\* merge_draft_items: the row inserted for the rows fetched, in the order the
\* store returned them (the row carries no draft_id)
merged_item_data(its, rows, merged_text) ==
    [draft_id |-> 0,
     section_id |-> its[rows[1]].section_id,
     summary_text |-> merged_text,
     item_order |-> its[rows[1]].item_order,
     domain_code |-> its[rows[1]].domain_code,
     is_critical |-> \E k \in DOMAIN rows : its[rows[k]].is_critical,
     source_entry_ids |-> list_set(Range(combined_source_ids(its, rows))),
     edit_count |-> 0,
     is_suppressed |-> FALSE]

\* POST /drafts/{draft_id}/items/merge; rows: the items found, in any order
\* the store may return them in
merge_draft_items(draft_id, item_ids, merged_text) ==
    IF Len(item_ids) < 2
    THEN Rejected("merge_draft_items", draft_id, NoUser, {}, Raise("validation", ""))
    ELSE IF ~HasRow(drafts, draft_id)
    THEN Rejected("merge_draft_items", draft_id, NoUser, {}, Raise("not_found", ""))
    ELSE LET err == item_edit_error(drafts[draft_id])
             found == Range(item_ids) \cap DOMAIN items
         IN IF err.out # "ok"
            THEN Rejected("merge_draft_items", draft_id, NoUser, {}, err)
            ELSE IF found = {} \/ Cardinality(found) # Len(item_ids)
            THEN Rejected("merge_draft_items", draft_id, NoUser, {},
                          Raise("item_not_found", ""))
            ELSE /\ \E rows \in Perms(found) :
                       items' = [i \in 1 .. (Len(items) + 1) |->
                                   IF i = Len(items) + 1
                                   THEN merged_item_data(items, rows, merged_text)
                                   ELSE IF i \in Range(item_ids)
                                   THEN [items[i] EXCEPT !.is_suppressed = TRUE]
                                   ELSE items[i]]
                 /\ res' = Result("merge_draft_items", draft_id, NoUser, Range(item_ids),
                                  "ok", "", Len(items) + 1)
                 /\ UNCHANGED <<entries, drafts, sections, edits, signoffs, exports, ledger>>

\* delete_draft_item removing the row instead of suppressing it
delete_draft_item_hard(draft_id, item_id) ==
    IF ~HasRow(drafts, draft_id) \/ ~HasRow(items, item_id)
       \/ drafts[draft_id].state # IN_REVIEW
    THEN Rejected("delete_draft_item", draft_id, NoUser, 0, Raise("not_found", ""))
    ELSE /\ items' = SubSeq(items, 1, item_id - 1) \o SubSeq(items, item_id + 1, Len(items))
         /\ res' = Result("delete_draft_item", draft_id, NoUser, item_id, "ok", "", 0)
         /\ UNCHANGED <<entries, drafts, sections, edits, signoffs, exports, ledger>>

\* DELETE /drafts/{draft_id}/items/{item_id}
delete_draft_item(draft_id, item_id) ==
    IF ~HasRow(drafts, draft_id)
    THEN Rejected("delete_draft_item", draft_id, NoUser, 0, Raise("not_found", ""))
    ELSE LET err == item_edit_error(drafts[draft_id])
         IN IF err.out # "ok"
            THEN Rejected("delete_draft_item", draft_id, NoUser, 0, err)
            ELSE IF ~HasRow(items, item_id)
            THEN Rejected("delete_draft_item", draft_id, NoUser, 0,
                          Raise("item_not_found", ""))
            ELSE /\ items' = [items EXCEPT ![item_id].is_suppressed = TRUE]
                 /\ res' = Result("delete_draft_item", draft_id, NoUser, item_id,
                                  "ok", "", 0)
                 /\ UNCHANGED <<entries, drafts, sections, edits, signoffs, exports, ledger>>

\* ------------------- a draft under review, requests served one at a time
\* handover_entries holding the two Engineering entries only
ReviewEntries == SubSeq(InitialEntries, 1, 2)

\* The store after generate_draft("y1", "u1", "u2") on that store
InitReview ==
    LET bucketed == _group_by_bucket(ReviewEntries,
                        _fetch_candidate_entries(ReviewEntries, "y1"))
    IN /\ entries = ReviewEntries
       /\ drafts = <<_create_draft_record("y1", "u1", "u2")>>
       /\ sections = _create_section(1, bucketed)
       /\ items = _create_sections_and_items(ReviewEntries, 1, bucketed, 1, 1)
       /\ edits = EmptyBag
       /\ signoffs = EmptyBag
       /\ exports = <<>>
       /\ ledger = EmptyBag
       /\ res = Result("generate_draft", 1, "u1", "y1", "ok", "", 1)
       /\ req = [w \in Workers |-> Idle]
       /\ pipe = NoPipe

\* the ids requests name here: the draft and one that does not exist, the
\* item rows and one that does not exist
ReviewDraftIds == 1 .. (Len(drafts) + 1)
ItemIds == 1 .. (Len(items) + 1)

EnterReviewState ==
    /\ \E d \in ReviewDraftIds, u \in {drafts[x].outgoing_user_id : x \in DOMAIN drafts} :
          enter_review_state(d, u)
    /\ UNCHANGED <<req, pipe>>

\* The manager's operations together with the /review endpoint, called by
\* any user
ReviewRequested ==
    /\ \E d \in DraftIds, u \in Users : enter_review_state(d, u)
    /\ UNCHANGED <<req, pipe>>

NextGuard ==
    \/ GenerateDraft
    \/ EnterReview
    \/ AcceptDraft
    \/ CountersignDraft
    \/ MarkExported
    \/ ReviewRequested

SpecGuard == Init /\ [][NextGuard]_vars

\* The same, the countersign request coming from any caller, also one whose
\* user id is empty
CountersignByAnyone ==
    /\ \E d \in DraftIds, u \in Users \cup {NoUser} : countersign_draft(d, u)
    /\ UNCHANGED <<req, pipe>>

NextUnset ==
    \/ GenerateDraft
    \/ EnterReview
    \/ AcceptDraft
    \/ CountersignByAnyone
    \/ MarkExported
    \/ ReviewRequested

SpecUnset == Init /\ [][NextUnset]_vars

\* the draft's own users move it on
OutgoingAccepts ==
    /\ \E d \in DOMAIN drafts : accept_draft(d, drafts[d].outgoing_user_id)
    /\ UNCHANGED <<req, pipe>>

IncomingCountersigns ==
    /\ \E d \in DOMAIN drafts : countersign_draft(d, drafts[d].incoming_user_id)
    /\ UNCHANGED <<req, pipe>>

ExportMarked ==
    /\ \E d \in DOMAIN drafts, e \in ExportIds : mark_exported(d, e)
    /\ UNCHANGED <<req, pipe>>

EditDraftItem ==
    /\ \E d \in ReviewDraftIds, i \in ItemIds, t \in EditTexts : edit_draft_item(d, i, t)
    /\ UNCHANGED <<req, pipe>>

\* item_ids of a merge request: one id, distinct ids (the rows come back in
\* the store's order, whatever the order asked), or one id twice
MergeRequests ==
    {ids \in UNION {[1 .. n -> ItemIds] : n \in MergeLens} :
        \/ \A k \in 1 .. (Len(ids) - 1) : ids[k] < ids[k + 1]
        \/ Len(ids) = 2 /\ ids[1] = ids[2]}

MergeDraftItems ==
    /\ \E d \in ReviewDraftIds, ids \in MergeRequests, t \in MergeTexts :
           merge_draft_items(d, ids, t)
    /\ res'.out = "ok" => Len(items) < MaxItems
    /\ UNCHANGED <<req, pipe>>

DeleteDraftItem ==
    /\ \E d \in ReviewDraftIds, i \in ItemIds : delete_draft_item(d, i)
    /\ UNCHANGED <<req, pipe>>

NextReview ==
    \/ EnterReviewState
    \/ OutgoingAccepts
    \/ IncomingCountersigns
    \/ ExportMarked
    \/ EditDraftItem
    \/ MergeDraftItems
    \/ DeleteDraftItem

SpecReview == InitReview /\ [][NextReview]_vars

\* ------------------- merges of merged items
\* The same draft, with item rows merged and suppressed only: a merged row
\* may be merged again, with the rows it came from or with others.
MergeMore ==
    /\ \E d \in ReviewDraftIds, ids \in MergeRequests, t \in MergeTexts :
           merge_draft_items(d, ids, t)
    /\ res'.out = "ok" => Len(items) < MaxMerged
    /\ UNCHANGED <<req, pipe>>

NextMerge ==
    \/ EnterReviewState
    \/ MergeMore
    \/ DeleteDraftItem

SpecMerge == InitReview /\ [][NextMerge]_vars

\* ------------------- two drafts, one of them past review
\* DraftGenerator.add_entry_to_existing_draft: the entry is fetched, the
\* draft's section of the entry's bucket found or created
\* (_get_or_create_section, _get_next_section_order), the item appended
\* after the section's last (_get_next_item_order, _create_item) and the
\* entry marked included.  The draft row is never read.
add_entry_to_existing_draft(draft_id, entry_id) ==
    IF ~HasRow(entries, entry_id)
    THEN Rejected("add_entry_to_existing_draft", draft_id, NoUser, 0,
                  Raise("entry_not_found", ""))
    ELSE LET bucket == entries[entry_id].presentation_bucket
             of_draft == {s \in DOMAIN sections : sections[s].draft_id = draft_id}
             found == {s \in of_draft : sections[s].section_bucket = bucket}
             section_order ==
                 IF of_draft = {} THEN 1
                 ELSE (CHOOSE o \in {sections[s].section_order : s \in of_draft} :
                          \A s \in of_draft : sections[s].section_order <= o) + 1
             section_id == IF found # {} THEN CHOOSE s \in found : TRUE
                           ELSE Len(sections) + 1
             in_section == {i \in DOMAIN items : items[i].section_id = section_id}
             item_order ==
                 IF in_section = {} THEN 1
                 ELSE (CHOOSE o \in {items[i].item_order : i \in in_section} :
                          \A i \in in_section : items[i].item_order <= o) + 1
         IN /\ sections' = IF found # {} THEN sections
                           ELSE Append(sections, [draft_id |-> draft_id,
                                                  section_bucket |-> bucket,
                                                  section_order |-> section_order])
            /\ items' = Append(items, _create_item(entries, draft_id, section_id,
                                                   entry_id, item_order))
            /\ entries' = [entries EXCEPT ![entry_id].status = "included"]
            /\ res' = Result("add_entry_to_existing_draft", draft_id, NoUser,
                             entry_id, "ok", "", 0)
            /\ UNCHANGED <<drafts, edits, signoffs, exports, ledger>>

\* handover_entries when the two drafts were generated, and now: the entry
\* of the other bucket was confirmed since
GeneratedFrom == SubSeq(InitialEntries, 1, 1)
FrozenEntries == GeneratedFrom \o SubSeq(InitialEntries, 3, 3)

\* The store after generate_draft("y1", "u1", "u2") and
\* generate_draft("y1", "u2", "u1")
InitFrozen ==
    LET bucketed == _group_by_bucket(GeneratedFrom,
                        _fetch_candidate_entries(GeneratedFrom, "y1"))
    IN /\ entries = FrozenEntries
       /\ drafts = <<_create_draft_record("y1", "u1", "u2"),
                     _create_draft_record("y1", "u2", "u1")>>
       /\ sections = _create_section(1, bucketed) \o _create_section(2, bucketed)
       /\ items = _create_sections_and_items(GeneratedFrom, 1, bucketed, 1, 1)
                  \o _create_sections_and_items(GeneratedFrom, 2, bucketed, 2, 1)
       /\ edits = EmptyBag
       /\ signoffs = EmptyBag
       /\ exports = <<>>
       /\ ledger = EmptyBag
       /\ res = Result("generate_draft", 2, "u2", "y1", "ok", "", 2)
       /\ req = [w \in Workers |-> Idle]
       /\ pipe = NoPipe

AddEntryToExistingDraft ==
    /\ \E d \in DOMAIN drafts, e \in 1 .. (Len(entries) + 1) :
           add_entry_to_existing_draft(d, e)
    /\ res'.out = "ok" => Len(items) < MaxItems
    /\ UNCHANGED <<req, pipe>>

NextFrozen ==
    \/ EnterReviewState
    \/ OutgoingAccepts
    \/ EditDraftItem
    \/ MergeDraftItems
    \/ DeleteDraftItem
    \/ AddEntryToExistingDraft

SpecFrozen == InitFrozen /\ [][NextFrozen]_vars

\* ------------------- store calls that fail
\* A call to the store raises when the store cannot be reached.  fails: the
\* call of this request that raises ("none": every call goes through).  A
\* call that raises has written nothing; what the calls before it wrote
\* stays, as nothing in the handlers undoes it.
FailsAt == {"none", "_create_signoff", "_update_draft_state", "_log_ledger_event"}

\* SignoffManager.accept_draft with one of its writes raising: the exception
\* of _create_signoff or _update_draft_state leaves the handler, the one of
\* _log_ledger_event is swallowed there
accept_draft_store_fails(draft_id, user_id, fails) ==
    IF ~HasRow(drafts, draft_id)
    THEN Rejected("accept_draft", draft_id, user_id, "", Raise("not_found", ""))
    ELSE LET err == accept_draft_error(drafts[draft_id], user_id)
         IN IF err.out # "ok"
            THEN Rejected("accept_draft", draft_id, user_id, "", err)
            ELSE IF fails = "_create_signoff"
            THEN Rejected("accept_draft", draft_id, user_id, "", Raise("store_error", ""))
            ELSE IF fails = "_update_draft_state"
            THEN /\ signoffs' = _create_signoff(signoffs, draft_id, user_id, "outgoing")
                 /\ res' = Result("accept_draft", draft_id, user_id, "",
                                  "store_error", "", 0)
                 /\ UNCHANGED <<entries, drafts, sections, items, edits, exports, ledger>>
            ELSE /\ signoffs' = _create_signoff(signoffs, draft_id, user_id, "outgoing")
                 /\ drafts' = _update_draft_state(drafts, draft_id, ACCEPTED)
                 /\ ledger' = IF fails = "_log_ledger_event" THEN ledger
                              ELSE _log_ledger_event(ledger, "handover_accepted",
                                                     draft_id, user_id)
                 /\ res' = Result("accept_draft", draft_id, user_id, "", "ok", "", 0)
                 /\ UNCHANGED <<entries, sections, items, edits, exports>>

\* SignoffManager.countersign_draft with one of its writes raising
countersign_draft_store_fails(draft_id, user_id, fails) ==
    IF ~HasRow(drafts, draft_id)
    THEN Rejected("countersign_draft", draft_id, user_id, "", Raise("not_found", ""))
    ELSE LET err == countersign_draft_error(drafts[draft_id], user_id)
         IN IF err.out # "ok"
            THEN Rejected("countersign_draft", draft_id, user_id, "", err)
            ELSE IF fails = "_create_signoff"
            THEN Rejected("countersign_draft", draft_id, user_id, "",
                          Raise("store_error", ""))
            ELSE IF fails = "_update_draft_state"
            THEN /\ signoffs' = _create_signoff(signoffs, draft_id, user_id, "incoming")
                 /\ res' = Result("countersign_draft", draft_id, user_id, "",
                                  "store_error", "", 0)
                 /\ UNCHANGED <<entries, drafts, sections, items, edits, exports, ledger>>
            ELSE /\ signoffs' = _create_signoff(signoffs, draft_id, user_id, "incoming")
                 /\ drafts' = _update_draft_state(drafts, draft_id, SIGNED)
                 /\ ledger' = IF fails = "_log_ledger_event" THEN ledger
                              ELSE _log_ledger_event(ledger, "handover_signed",
                                                     draft_id, user_id)
                 /\ res' = Result("countersign_draft", draft_id, user_id, "", "ok", "", 0)
                 /\ UNCHANGED <<entries, sections, items, edits, exports>>

\* requests served one at a time; a request that failed may be sent again
AcceptDraftStoreFails ==
    /\ \E d \in DraftIds, u \in Users, f \in FailsAt : accept_draft_store_fails(d, u, f)
    /\ BagCardinality(signoffs') <= MaxSignoffs
    /\ UNCHANGED <<req, pipe>>

CountersignDraftStoreFails ==
    /\ \E d \in DraftIds, u \in Users, f \in FailsAt :
           countersign_draft_store_fails(d, u, f)
    /\ BagCardinality(signoffs') <= MaxSignoffs
    /\ UNCHANGED <<req, pipe>>

NextFails ==
    \/ GenerateDraft
    \/ EnterReview
    \/ AcceptDraftStoreFails
    \/ CountersignDraftStoreFails
    \/ MarkExported

SpecFails == Init /\ [][NextFails]_vars

\* ------------------- transition requests that overlap
\* Each worker serves one request at a time; every call to the store is one
\* step, and the steps of two workers interleave.  pc: "idle", "checked"
\* (_get_draft returned and the checks passed), "signed_off" (_create_signoff
\* returned), "updated" (_update_draft_state returned).
TransitionOps == {"enter_review", "accept_draft", "countersign_draft", "mark_exported"}

\* the check each operation makes on the row _get_draft returned
transition_error(op, draft, user_id) ==
    CASE op = "enter_review" -> enter_review_error(draft, user_id)
      [] op = "accept_draft" -> accept_draft_error(draft, user_id)
      [] op = "countersign_draft" -> countersign_draft_error(draft, user_id)
      [] op = "mark_exported" -> mark_exported_error(draft)

\* the state each operation writes
new_state(op) ==
    CASE op = "enter_review" -> IN_REVIEW
      [] op = "accept_draft" -> ACCEPTED
      [] op = "countersign_draft" -> SIGNED
      [] op = "mark_exported" -> EXPORTED

signoff_type(op) == IF op = "accept_draft" THEN "outgoing" ELSE "incoming"

event_type(op) == IF op = "accept_draft" THEN "handover_accepted" ELSE "handover_signed"

\* _get_draft and the checks: the request raises, or goes on with what it read
GetDraftAndCheck(w, op, draft_id, user_id, export_id) ==
    /\ req[w].pc = "idle"
    /\ req[w].served < MaxServed
    /\ UNCHANGED pipe
    /\ IF ~HasRow(drafts, draft_id)
       THEN /\ Rejected(op, draft_id, user_id, "", Raise("not_found", ""))
            /\ req' = [req EXCEPT ![w].served = @ + 1]
       ELSE LET err == transition_error(op, drafts[draft_id], user_id)
            IN IF err.out # "ok"
               THEN /\ Rejected(op, draft_id, user_id, "", err)
                    /\ req' = [req EXCEPT ![w].served = @ + 1]
               ELSE /\ req' = [req EXCEPT ![w] =
                                  [pc |-> "checked", served |-> req[w].served + 1,
                                   op |-> op, draft_id |-> draft_id,
                                   user_id |-> user_id, export_id |-> export_id,
                                   state |-> drafts[draft_id].state]]
                    /\ UNCHANGED <<tables, res>>

\* accept_draft, countersign_draft: the signoff row is inserted
CreateSignoff(w) ==
    /\ req[w].pc = "checked"
    /\ req[w].op \in {"accept_draft", "countersign_draft"}
    /\ signoffs' = _create_signoff(signoffs, req[w].draft_id, req[w].user_id,
                                   signoff_type(req[w].op))
    /\ req' = [req EXCEPT ![w].pc = "signed_off"]
    /\ UNCHANGED <<entries, drafts, sections, items, edits, exports, ledger, res, pipe>>

\* the state column is written, whatever it holds by now
UpdateDraftState(w) ==
    /\ \/ req[w].pc = "checked" /\ req[w].op \in {"enter_review", "mark_exported"}
       \/ req[w].pc = "signed_off"
    /\ drafts' = _update_draft_state(drafts, req[w].draft_id, new_state(req[w].op))
    /\ req' = [req EXCEPT ![w].pc = "updated"]
    /\ UNCHANGED <<entries, sections, items, edits, signoffs, exports, ledger, res, pipe>>

\* the last write (the ledger event, the export link) and the return
Return(w) ==
    /\ req[w].pc = "updated"
    /\ ledger' = IF req[w].op \in {"accept_draft", "countersign_draft"}
                 THEN _log_ledger_event(ledger, event_type(req[w].op),
                                        req[w].draft_id, req[w].user_id)
                 ELSE ledger
    /\ exports' = IF req[w].op = "mark_exported"
                  THEN link_export(exports, req[w].export_id, req[w].draft_id)
                  ELSE exports
    /\ res' = Result(req[w].op, req[w].draft_id, req[w].user_id, "", "ok", "", 0)
    /\ req' = [req EXCEPT ![w] = [pc |-> "idle", served |-> req[w].served]]
    /\ UNCHANGED <<entries, drafts, sections, items, edits, signoffs, pipe>>

RequestArrives ==
    \E w \in Workers, op \in TransitionOps, d \in ReviewDraftIds, u \in Users,
       e \in ExportIds :
        GetDraftAndCheck(w, op, d, u, e)

SignoffInserted == \E w \in Workers : CreateSignoff(w)

StateWritten == \E w \in Workers : UpdateDraftState(w)

RequestReturns == \E w \in Workers : Return(w)

NextRace ==
    \/ RequestArrives
    \/ SignoffInserted
    \/ StateWritten
    \/ RequestReturns

SpecRace == InitReview /\ [][NextRace]_vars

\* ================================================ pipeline orchestrator
\* EmailHandoverPipeline.run.  The stage objects the pipeline is built with,
\* and the stage names of its progress reports.
StageObjects ==
    {"fetch", "extract", "classify", "group", "merge", "dedupe", "format", "export"}

ProgressStages ==
    <<"fetch", "extract", "classify", "group", "merge", "dedupe", "format", "complete">>

\* A stage's output: the stage that made it and its length.
Output(by, len) == [by |-> by, len |-> len]

\* run's local variables before the first stage
NoLocals ==
    [v \in {"raw_emails", "extracted", "classifications", "groups", "merged",
             "deduplicated", "report"} |-> Output("none", 0)]

\* the arguments run passes to stage k, with classify given the raw messages
stage_args_raw_to_classify(k, l) ==
    CASE k = 1 -> <<>>
      [] k = 2 -> <<l.raw_emails>>
      [] k = 3 -> <<l.raw_emails>>
      [] k = 4 -> <<l.classifications, l.extracted>>
      [] k = 5 -> <<l.groups>>
      [] k = 6 -> <<l.merged>>
      [] k = 7 -> <<l.deduplicated>>

\* the arguments run passes to stage k (fetch gets the configuration)
stage_args(k, l) ==
    CASE k = 1 -> <<>>
      [] k = 2 -> <<l.raw_emails>>
      [] k = 3 -> <<l.extracted>>
      [] k = 4 -> <<l.classifications, l.extracted>>
      [] k = 5 -> <<l.groups>>
      [] k = 6 -> <<l.merged>>
      [] k = 7 -> <<l.deduplicated>>

\* the local variable stage k's result is assigned to
stage_result(k) ==
    CASE k = 1 -> "raw_emails"
      [] k = 2 -> "extracted"
      [] k = 3 -> "classifications"
      [] k = 4 -> "groups"
      [] k = 5 -> "merged"
      [] k = 6 -> "deduplicated"
      [] k = 7 -> "report"

\* the lengths stage k may return for its arguments: fetch any number of
\* messages, group at most one group per classification, the others one
\* result per input
stage_lens(k, args) ==
    CASE k = 1 -> 0 .. MaxEmails
      [] k = 4 -> 0 .. args[1].len
      [] OTHER -> {args[1].len}

\* items and items_total of report k
report_items(k, l) ==
    CASE k = 1 -> <<0, 0>>
      [] k = 2 -> <<0, l.raw_emails.len>>
      [] k = 3 -> <<0, l.extracted.len>>
      [] k = 4 -> <<l.classifications.len, l.classifications.len>>
      [] k = 5 -> <<0, l.groups.len>>
      [] k = 6 -> <<l.merged.len, l.merged.len>>
      [] OTHER -> <<l.deduplicated.len, l.deduplicated.len>>

\* _report_progress: the callback, when one is registered, gets the report
_report_progress(p, k) ==
    IF p.callback
    THEN Append(p.log, [ev |-> "report", stage |-> ProgressStages[k],
                        stage_number |-> k, total_stages |-> Len(ProgressStages),
                        items_processed |-> report_items(k, p.locals)[1],
                        items_total |-> report_items(k, p.locals)[2]])
    ELSE p.log

\* a pipeline built and, possibly, given a progress callback; run is called
InitPipeline ==
    /\ entries = <<>> /\ drafts = <<>> /\ sections = <<>> /\ items = <<>>
    /\ edits = EmptyBag /\ signoffs = EmptyBag /\ exports = <<>> /\ ledger = EmptyBag
    /\ res = NoResult
    /\ req = [w \in Workers |-> Idle]
    /\ \E cb \in BOOLEAN :
          pipe = [stage |-> "run", k |-> 1, at |-> "report", callback |-> cb,
                  log |-> <<>>, locals |-> NoLocals]

\* the report of stage k, made before the stage is called; after the last
\* one run returns the report
ReportProgress ==
    /\ pipe.stage = "run" /\ pipe.at = "report"
    /\ pipe' = [pipe EXCEPT !.log = _report_progress(pipe, pipe.k),
                            !.at = IF pipe.k = Len(ProgressStages) THEN "done" ELSE "call"]
    /\ UNCHANGED <<tables, res, req>>

\* the callback raises: run ends with its exception
CallbackRaises ==
    /\ pipe.stage = "run" /\ pipe.at = "report" /\ pipe.callback
    /\ pipe' = [pipe EXCEPT !.log = _report_progress(pipe, pipe.k), !.at = "failed"]
    /\ UNCHANGED <<tables, res, req>>

StageCalled ==
    /\ pipe.stage = "run" /\ pipe.at = "call"
    /\ pipe' = [pipe EXCEPT
                  !.log = Append(@, [ev |-> "call", stage |-> ProgressStages[pipe.k],
                                     args |-> stage_args(pipe.k, pipe.locals)]),
                  !.at = "running"]
    /\ UNCHANGED <<tables, res, req>>

StageReturns ==
    /\ pipe.stage = "run" /\ pipe.at = "running"
    /\ \E n \in stage_lens(pipe.k, stage_args(pipe.k, pipe.locals)) :
          pipe' = [pipe EXCEPT
                     !.locals[stage_result(pipe.k)] = Output(ProgressStages[pipe.k], n),
                     !.log = Append(@, [ev |-> "return", stage |-> ProgressStages[pipe.k]]),
                     !.k = @ + 1,
                     !.at = "report"]
    /\ UNCHANGED <<tables, res, req>>

\* a stage's exception ends the run (classify and merge absorb theirs)
StageRaises ==
    /\ pipe.stage = "run" /\ pipe.at = "running"
    /\ ProgressStages[pipe.k] \in {"fetch", "extract", "group", "dedupe", "format"}
    /\ pipe' = [pipe EXCEPT !.at = "failed"]
    /\ UNCHANGED <<tables, res, req>>

NextPipeline ==
    \/ ReportProgress
    \/ CallbackRaises
    \/ StageCalled
    \/ StageReturns
    \/ StageRaises

SpecPipeline == InitPipeline /\ [][NextPipeline]_vars

\* ================================================ classify and merge
\* ClassifyStage.execute and MergeSummariesStage.execute: one task per input,
\* all sharing the semaphore the call creates.
HandoverCategory ==
    {"Electrical", "Projects", "Financial", "Galley Laundry", "Risk", "Admin",
     "Fire Safety", "Tenders", "Logistics", "Deck", "General Outstanding"}

GENERAL == "General Outstanding"

\* A mapping's value under a key: the set of the value, empty when the key
\* is missing.
Absent == {}

\* ExtractedEmail.short_id: the letter E and the message's index
short_id(idx) == <<"E", idx>>

\* what classify_email may give back: an exception, or a mapping whose
\* category and shortId are whatever the classifier wrote
Raised == [raised |-> TRUE]
ClassifierAnswers(n) ==
    {Raised} \cup
    [raised : {FALSE}, category : {{"Electrical"}, {"Nonsense"}, Absent},
     shortId : {Absent} \cup {{short_id(k)} : k \in 1 .. n}]

\* dict.get(key, default)
get(value, default) == IF value = Absent THEN default ELSE CHOOSE v \in value : TRUE

ClassificationResult(sid, category, confidence) ==
    [short_id |-> sid, category |-> category, confidence |-> confidence]

\* _classify_single whose fallback keeps the confidence of a success
_classify_single_confident_fallback(email, answer) ==
    IF answer.raised
    THEN ClassificationResult(email.short_id, GENERAL, "0.9")
    ELSE ClassificationResult(
             get(answer.shortId, email.short_id),
             IF get(answer.category, GENERAL) \in HandoverCategory
             THEN get(answer.category, GENERAL) ELSE GENERAL,
             "0.9")

\* _classify_single, given the classifier's answer
_classify_single(email, answer) ==
    IF answer.raised
    THEN ClassificationResult(email.short_id, GENERAL, "0.0")
    ELSE ClassificationResult(
             get(answer.shortId, email.short_id),
             IF get(answer.category, GENERAL) \in HandoverCategory
             THEN get(answer.category, GENERAL) ELSE GENERAL,
             "0.9")

\* Values a collaborator hands over: a null, a string (as its characters or
\* tokens), a list or a mapping.
PyNone == [type |-> "NoneType"]
Str(text) == [type |-> "str", text |-> text]
List(elems) == [type |-> "list", elems |-> elems]

Priority == {"CRITICAL", "HIGH", "NORMAL"}

\* the topic group with merge key k
TopicGroup(k) ==
    [merge_key |-> k, category |-> "Electrical", subject_group |-> "generator",
     source_ids |-> <<short_id(k)>>]

\* a merger response with these actions
MergerResponse(actions) ==
    [raised |-> FALSE, type |-> "dict",
     handover |-> {[type |-> "dict", subject |-> {"Generator service"},
                    summary |-> {"Service is due"}, actions |-> {List(actions)}]}]

\* the action mappings a response may carry: off the first one in at most
\* one field
ResponseActions ==
    LET Action(p, t, st) == [type |-> "dict", priority |-> p, task |-> t, subTasks |-> st]
        Fix == Str(<<"F", "i", "x">>)
    IN  {Action({"HIGH"}, {Str(t)}, {List(<<>>)}) :
            t \in {<<"F", "i", "x">>, <<"f", "i", "x", "!">>, <<"T", "e", "s", "t">>}}
        \cup {Action(p, {Fix}, {List(<<>>)}) : p \in {{}, {"CRITICAL"}, {"NORMAL"}, {"LOW"}}}
        \cup {Action({"HIGH"}, t, {List(<<>>)}) : t \in {{}, {PyNone}}}
        \cup {Action({"HIGH"}, {Fix}, st) : st \in {{}, {PyNone}, {List(<<"a">>)}}}

\* a well-formed response: three actions, the third a repeat of the first
NominalResponse ==
    LET Action(t) == [type |-> "dict", priority |-> {"HIGH"}, task |-> {Str(t)},
                      subTasks |-> {List(<<>>)}]
    IN  MergerResponse(<<Action(<<"F", "i", "x">>), Action(<<"T", "e", "s", "t">>),
                         Action(<<"f", "i", "x", "!">>)>>)

\* what merge_handover_notes may give back: an exception, a null, a mapping
\* without a handover or with a null one, a handover without actions or with
\* null ones, or a handover with up to MaxActions action mappings
MergerResponses ==
    {Raised, [raised |-> FALSE, type |-> "NoneType"],
     [raised |-> FALSE, type |-> "dict", handover |-> {}],
     [raised |-> FALSE, type |-> "dict", handover |-> {PyNone}],
     [raised |-> FALSE, type |-> "dict",
      handover |-> {[type |-> "dict", subject |-> {}, summary |-> {}, actions |-> {}]}],
     [raised |-> FALSE, type |-> "dict",
      handover |-> {[type |-> "dict", subject |-> {"Generator service"},
                     summary |-> {"Service is due"}, actions |-> {PyNone}]}]}
    \cup {MergerResponse(a) :
             a \in UNION {[1 .. n -> ResponseActions] : n \in 0 .. MaxActions}}

\* HandoverAction(priority=Priority(a.get('priority', 'NORMAL')), ...): the
\* action, or the ValueError of Priority
HandoverAction(a) ==
    [priority |-> get(a.priority, "NORMAL"),
     task |-> get(a.task, Str(<<>>)),
     sub_tasks |-> get(a.subTasks, List(<<>>)),
     raised |-> IF get(a.priority, "NORMAL") \in Priority THEN "" ELSE "ValueError"]

\* _merge_single, given the merger's answer: the parsed handover, or the
\* fallback when the call or the parsing raised
_merge_single(group, answer) ==
    LET fallback ==
            [merge_key |-> group.merge_key, category |-> group.category,
             subject_group |-> group.subject_group, subject |-> group.subject_group,
             summary |-> "Merge error", actions |-> <<>>,
             source_ids |-> group.source_ids,
             domain_code |-> "None", presentation_bucket |-> "None"]
        \* CATEGORY_TO_DOMAIN.get(group.category, (None, None))
        domain == IF group.category = "Electrical" THEN <<"ENG-03", "Engineering">>
                  ELSE IF group.category = "Deck" THEN <<"DECK-01", "Deck">>
                  ELSE <<"None", "None">>
        EmptyDict == [type |-> "dict", subject |-> {}, summary |-> {}, actions |-> {}]
    IN  IF answer.raised \/ answer.type # "dict" THEN fallback
        ELSE LET handover == get(answer.handover, EmptyDict) IN
             IF handover.type # "dict" THEN fallback
             ELSE LET returned == get(handover.actions, List(<<>>)) IN
                  IF returned.type # "list" THEN fallback
                  ELSE LET actions == [i \in DOMAIN returned.elems |->
                                          HandoverAction(returned.elems[i])]
                       IN  IF \E i \in DOMAIN actions : actions[i].raised # ""
                           THEN fallback
                           ELSE [merge_key |-> group.merge_key,
                                 category |-> group.category,
                                 subject_group |-> group.subject_group,
                                 subject |-> get(handover.subject, group.subject_group),
                                 summary |-> get(handover.summary, ""),
                                 actions |-> [i \in DOMAIN actions |->
                                                [priority |-> actions[i].priority,
                                                 task |-> actions[i].task,
                                                 sub_tasks |-> actions[i].sub_tasks]],
                                 source_ids |-> group.source_ids,
                                 domain_code |-> domain[1],
                                 presentation_bucket |-> domain[2]]

\* execute is called on extracted messages E1..En, or on n topic groups: the
\* semaphore is created with max_concurrent permits and one task per input
\* is made
InitFanOut ==
    /\ entries = <<>> /\ drafts = <<>> /\ sections = <<>> /\ items = <<>>
    /\ edits = EmptyBag /\ signoffs = EmptyBag /\ exports = <<>> /\ ledger = EmptyBag
    /\ res = NoResult
    /\ req = [w \in Workers |-> Idle]
    /\ \E stage \in {"classify", "merge"}, n \in 0 .. MaxEmails, m \in 1 .. MaxConcurrent :
          pipe = [stage |-> stage,
                  max_concurrent |-> m,
                  semaphore |-> m,
                  inputs |-> IF stage = "classify"
                             THEN [i \in 1 .. n |-> [short_id |-> short_id(i)]]
                             ELSE [i \in 1 .. n |-> TopicGroup(i)],
                  tasks |-> [i \in 1 .. n |->
                               [pc |-> "waiting",
                                answer |-> [raised |-> FALSE, pending |-> TRUE],
                                result |-> [pending |-> TRUE]]],
                  returned |-> [pending |-> TRUE, results |-> <<>>]]

\* async with semaphore, entered by the semaphore guard being dropped
acquire_unbounded(p) == TRUE

\* async with semaphore: entered while a permit is free
acquire(p) == p.semaphore > 0

\* a task enters the semaphore and starts its call
TaskStarts ==
    /\ pipe.stage \in {"classify", "merge"}
    /\ \E i \in DOMAIN pipe.tasks :
          /\ pipe.tasks[i].pc = "waiting"
          /\ acquire(pipe)
          /\ pipe' = [pipe EXCEPT !.tasks[i].pc = "in_flight",
                                  !.semaphore = @ - 1]
    /\ UNCHANGED <<tables, res, req>>

\* async with semaphore left on the success path only
release_on_success_only(p, answer) ==
    IF answer.raised THEN p.semaphore ELSE p.semaphore + 1

\* async with semaphore: the permit is given back when the block is left,
\* by a return or by an exception
release(p, answer) == p.semaphore + 1

\* the classifier call of one task ends with one of these answers; the task
\* builds its result and leaves the semaphore
classifier_returns(answers) ==
    /\ pipe.stage = "classify"
    /\ \E i \in DOMAIN pipe.tasks, a \in answers :
          /\ pipe.tasks[i].pc = "in_flight"
          /\ pipe' = [pipe EXCEPT
                        !.tasks[i] = [pc |-> "done", answer |-> a,
                                      result |-> _classify_single(pipe.inputs[i], a)],
                        !.semaphore = release(pipe, a)]
    /\ UNCHANGED <<tables, res, req>>

ClassifierReturns == classifier_returns(ClassifierAnswers(Len(pipe.inputs)))

MergerReturns ==
    /\ pipe.stage = "merge"
    /\ \E i \in DOMAIN pipe.tasks, a \in {Raised, NominalResponse} :
          /\ pipe.tasks[i].pc = "in_flight"
          /\ pipe' = [pipe EXCEPT
                        !.tasks[i] = [pc |-> "done", answer |-> a,
                                      result |-> _merge_single(pipe.inputs[i], a)],
                        !.semaphore = release(pipe, a)]
    /\ UNCHANGED <<tables, res, req>>

\* asyncio.gather: the results in the order of the tasks
Gather ==
    /\ pipe.stage \in {"classify", "merge"}
    /\ pipe.returned.pending
    /\ \A i \in DOMAIN pipe.tasks : pipe.tasks[i].pc = "done"
    /\ pipe' = [pipe EXCEPT
                  !.returned = [pending |-> FALSE,
                                results |-> [i \in DOMAIN pipe.tasks |-> pipe.tasks[i].result]]]
    /\ UNCHANGED <<tables, res, req>>

NextFanOut ==
    \/ TaskStarts
    \/ ClassifierReturns
    \/ MergerReturns
    \/ Gather

SpecFanOut == InitFanOut /\ [][NextFanOut]_vars

\* ------------------- every call ends
\* The classifier call ends with an exception or with an answer (what the
\* answer says has no part in when the task ends).
ClassifierCallEnds ==
    classifier_returns({Raised,
                        [raised |-> FALSE, category |-> {"Electrical"}, shortId |-> Absent]})

NextFanOutFair ==
    \/ TaskStarts
    \/ ClassifierCallEnds
    \/ MergerReturns
    \/ Gather

\* The event loop runs every task that is ready (a waiting task enters the
\* semaphore once a permit is free, gather returns once every task is done),
\* and every classifier and merger call ends, with an answer or an exception.
SpecFanOutFair ==
    /\ InitFanOut
    /\ [][NextFanOutFair]_vars
    /\ WF_vars(TaskStarts)
    /\ WF_vars(ClassifierCallEnds)
    /\ WF_vars(MergerReturns)
    /\ WF_vars(Gather)

\* ====================================================== extract stage
\* ExtractContentStage.execute.  The strings of a raw message are sequences
\* of tokens: tags, whitespace, words.
HtmlTags == {"<p>", "</p>", "<b>", "</b>"}
Whitespace == {" ", "\t", "\n"}

\* html_pattern.sub('', html)
RECURSIVE remove_tags(_)
remove_tags(t) ==
    IF t = <<>> THEN <<>>
    ELSE IF Head(t) \in HtmlTags THEN remove_tags(Tail(t))
    ELSE <<Head(t)>> \o remove_tags(Tail(t))

\* whitespace_pattern.sub(' ', text)
RECURSIVE collapse_whitespace(_)
collapse_whitespace(t) ==
    IF t = <<>> THEN <<>>
    ELSE IF Head(t) \in Whitespace
         THEN IF Tail(t) # <<>> /\ Head(Tail(t)) \in Whitespace
              THEN collapse_whitespace(Tail(t))
              ELSE <<" ">> \o collapse_whitespace(Tail(t))
         ELSE <<Head(t)>> \o collapse_whitespace(Tail(t))

\* str.strip
RECURSIVE strip(_)
strip(t) ==
    IF t = <<>> THEN <<>>
    ELSE IF Head(t) \in Whitespace THEN strip(Tail(t))
    ELSE IF t[Len(t)] \in Whitespace THEN strip(SubSeq(t, 1, Len(t) - 1))
    ELSE t

\* _strip_html: a TypeError for anything but a string
_strip_html(html) ==
    IF html.type # "str" THEN [raised |-> "TypeError"]
    ELSE [raised |-> "", value |-> Str(strip(collapse_whitespace(remove_tags(html.text))))]

\* parser.parse succeeds on these
ParseableDates == {"2026-01-14T10:00:00Z"}

\* Raw messages: the body maps, sender descriptors and timestamps a message
\* may carry, each message off the nominal one in at most one field.
RawEmails ==
    LET PlainBody == <<"Generator", " ", "tripped">>
        HtmlBody == <<"<p>", "Generator", "\n", " ", "<b>", "tripped", "</b>", "</p>", " ">>
        NominalBody == [content |-> {Str(PlainBody)}, contentType |-> {"text"}]
        Bodies ==
            {[content |-> {}, contentType |-> {}],
             NominalBody,
             [content |-> {Str(HtmlBody)}, contentType |-> {"html"}],
             [content |-> {}, contentType |-> {"html"}],
             [content |-> {PyNone}, contentType |-> {"html"}]}
        NominalSender ==
            [type |-> "dict",
             emailAddress |-> {[type |-> "dict", name |-> {"Chief"},
                                address |-> {"chief@yacht"}]}]
        Senders ==
            {NominalSender,
             [type |-> "dict", emailAddress |-> {}],
             [type |-> "dict",
              emailAddress |-> {[type |-> "dict", name |-> {}, address |-> {}]}],
             [type |-> "dict", emailAddress |-> {PyNone}],
             PyNone}
        Dates == ParseableDates \cup {"not-a-date"}
        RawEmail(b, f, d) ==
            [body |-> b, body_preview |-> Str(<<"Generator", " ", "trip">>),
             from_address |-> f, received_datetime |-> d]
    IN  {RawEmail(b, NominalSender, "2026-01-14T10:00:00Z") : b \in Bodies}
        \cup {RawEmail(NominalBody, f, "2026-01-14T10:00:00Z") : f \in Senders}
        \cup {RawEmail(NominalBody, NominalSender, d) : d \in Dates}

\* enumerate that ignores start
enumerate_from_one(start_index, k) == k

\* enumerate(emails, start=start_index): the index of the k-th message
enumerate(start_index, k) == start_index + k - 1

\* the body of one loop iteration: the ExtractedEmail, or the exception
extract_one(email, id, idx) ==
    LET body_content == get(email.body.content, email.body_preview)
        stripped == _strip_html(body_content)
        is_html == get(email.body.contentType, "") = "html"
        from_addr == IF email.from_address.type = "dict"
                     THEN get(email.from_address.emailAddress,
                              [type |-> "dict", name |-> {}, address |-> {}])
                     ELSE PyNone
    IN  IF is_html /\ stripped.raised # "" THEN [raised |-> stripped.raised]
        ELSE IF email.from_address.type # "dict" \/ from_addr.type # "dict"
        THEN [raised |-> "AttributeError"]
        ELSE [raised |-> "",
              value |-> [short_id |-> short_id(idx),
                         email_id |-> id,
                         body_text |-> IF is_html THEN stripped.value ELSE body_content,
                         sender_name |-> get(from_addr.name, ""),
                         sender_email |-> get(from_addr.address, ""),
                         received_at |-> IF email.received_datetime \in ParseableDates
                                         THEN email.received_datetime ELSE "now"]]

\* message ids are distinct: the k-th message of a call has id k
InitExtract ==
    /\ entries = <<>> /\ drafts = <<>> /\ sections = <<>> /\ items = <<>>
    /\ edits = EmptyBag /\ signoffs = EmptyBag /\ exports = <<>> /\ ledger = EmptyBag
    /\ res = NoResult
    /\ req = [w \in Workers |-> Idle]
    /\ \E n \in 0 .. MaxEmails, start \in 1 .. MaxStart :
          \E emails \in [1 .. n -> RawEmails] :
             pipe = [stage |-> "extract", emails |-> emails, start_index |-> start,
                     k |-> 1, extracted |-> <<>>, at |-> "loop", exception |-> ""]

ExtractNext ==
    /\ pipe.stage = "extract" /\ pipe.at = "loop" /\ pipe.k <= Len(pipe.emails)
    /\ LET out == extract_one(pipe.emails[pipe.k], pipe.k,
                               enumerate(pipe.start_index, pipe.k))
       IN  /\ out.raised = ""
           /\ pipe' = [pipe EXCEPT !.extracted = Append(@, out.value), !.k = @ + 1]
    /\ UNCHANGED <<tables, res, req>>

ExtractRaises ==
    /\ pipe.stage = "extract" /\ pipe.at = "loop" /\ pipe.k <= Len(pipe.emails)
    /\ LET out == extract_one(pipe.emails[pipe.k], pipe.k,
                               enumerate(pipe.start_index, pipe.k))
       IN  /\ out.raised # ""
           /\ pipe' = [pipe EXCEPT !.at = "raised", !.exception = out.raised]
    /\ UNCHANGED <<tables, res, req>>

ExtractReturns ==
    /\ pipe.stage = "extract" /\ pipe.at = "loop" /\ pipe.k > Len(pipe.emails)
    /\ pipe' = [pipe EXCEPT !.at = "returned"]
    /\ UNCHANGED <<tables, res, req>>

NextExtract ==
    \/ ExtractNext
    \/ ExtractRaises
    \/ ExtractReturns

SpecExtract == InitExtract /\ [][NextExtract]_vars

\* ======================================================== group stage
\* GroupTopicsStage.execute.  Strings are sequences of characters.
AlphaNumeric ==
    {"a", "b", "c", "d", "e", "f", "g", "h", "i", "j", "k", "l", "m",
     "n", "o", "p", "q", "r", "s", "t", "u", "v", "w", "x", "y", "z",
     "0", "1", "2", "3", "4", "5", "6", "7", "8", "9"}

\* str.lower
lower(t) ==
    LET UpperCase ==
            <<"A", "B", "C", "D", "E", "F", "G", "H", "I", "J", "K", "L", "M",
              "N", "O", "P", "Q", "R", "S", "T", "U", "V", "W", "X", "Y", "Z">>
        LowerCase ==
            <<"a", "b", "c", "d", "e", "f", "g", "h", "i", "j", "k", "l", "m",
              "n", "o", "p", "q", "r", "s", "t", "u", "v", "w", "x", "y", "z">>
    IN  [i \in DOMAIN t |->
            IF \E j \in DOMAIN UpperCase : UpperCase[j] = t[i]
            THEN LowerCase[CHOOSE j \in DOMAIN UpperCase : UpperCase[j] = t[i]]
            ELSE t[i]]

startswith(t, prefix) ==
    Len(t) >= Len(prefix) /\ SubSeq(t, 1, Len(prefix)) = prefix

drop(t, n) == SubSeq(t, n + 1, Len(t))

\* \s* at the head of t
RECURSIVE skip_spaces(_)
skip_spaces(t) ==
    IF t # <<>> /\ Head(t) \in Whitespace THEN skip_spaces(Tail(t)) ELSE t

\* re.sub(r'^(re:|fw:|fwd:)\s*', '', ...)
remove_prefix(t) ==
    IF startswith(t, <<"r", "e", ":">>) THEN skip_spaces(drop(t, 3))
    ELSE IF startswith(t, <<"f", "w", ":">>) THEN skip_spaces(drop(t, 3))
    ELSE IF startswith(t, <<"f", "w", "d", ":">>) THEN skip_spaces(drop(t, 4))
    ELSE t

\* re.sub(r'urgent[:\-]?\s*', '', ...)
RECURSIVE remove_urgent(_)
remove_urgent(t) ==
    IF t = <<>> THEN <<>>
    ELSE IF startswith(t, <<"u", "r", "g", "e", "n", "t">>)
    THEN LET rest == drop(t, 6)
             after == IF rest # <<>> /\ Head(rest) \in {":", "-"} THEN Tail(rest) ELSE rest
         IN  remove_urgent(skip_spaces(after))
    ELSE <<Head(t)>> \o remove_urgent(Tail(t))

\* re.sub(r'[^a-z0-9]+', ' ', ...)
RECURSIVE skip_non_alnum(_)
skip_non_alnum(t) ==
    IF t # <<>> /\ Head(t) \notin AlphaNumeric THEN skip_non_alnum(Tail(t)) ELSE t

RECURSIVE squash_non_alnum(_)
squash_non_alnum(t) ==
    IF t = <<>> THEN <<>>
    ELSE IF Head(t) \notin AlphaNumeric
    THEN <<" ">> \o squash_non_alnum(skip_non_alnum(t))
    ELSE <<Head(t)>> \o squash_non_alnum(Tail(t))

_normalize_subject(subject) ==
    strip(squash_non_alnum(remove_urgent(remove_prefix(lower(subject)))))

\* _build_merge_key
_build_merge_key(category, subject_group) ==
    SelectSeq(lower(category \o <<"_">> \o subject_group),
              LAMBDA c : c \in AlphaNumeric)

\* HandoverCategory values of the classifications, as characters
GroupCategories == {<<"D", "e", "c", "k">>, <<"R", "i", "s", "k">>}

\* subjects of the extracted messages
Subjects ==
    {<<"R", "E", ":", " ", "G", "e", "n", " ", "1">>,
     <<"g", "e", "n", "1">>,
     <<"U", "R", "G", "E", "N", "T", ":", " ", "G", "e", "n", "-", "1">>,
     <<"F", "w", "d", ":", " ", "R", "E", ":", " ", "G", "e", "n", " ", "1">>,
     <<"P", "u", "m", "p">>}

\* message i is classified under some category and its own id, or, for no
\* category, by a classification whose id no extracted message carries
InitGroup ==
    /\ entries = <<>> /\ drafts = <<>> /\ sections = <<>> /\ items = <<>>
    /\ edits = EmptyBag /\ signoffs = EmptyBag /\ exports = <<>> /\ ledger = EmptyBag
    /\ res = NoResult
    /\ req = [w \in Workers |-> Idle]
    /\ \E n \in 0 .. MaxEmails :
          \E subjects \in [1 .. n -> Subjects] :
             \E classes \in [1 .. n -> GroupCategories \cup {<<>>}] :
                pipe = [stage |-> "group",
                        emails |-> [i \in 1 .. n |->
                                      [short_id |-> short_id(i), subject |-> subjects[i]]],
                        classifications |->
                            [i \in 1 .. n |->
                               IF classes[i] = <<>>
                               THEN [short_id |-> short_id(0),
                                     category |-> <<"D", "e", "c", "k">>]
                               ELSE [short_id |-> short_id(i),
                                     category |-> classes[i]]],
                        k |-> 1, groups |-> <<>>, at |-> "loop"]

\* email_map.get(cls.short_id)
email_of(p, cls) ==
    {i \in DOMAIN p.emails : p.emails[i].short_id = cls.short_id}

\* position of the group stored under key, 0 when there is none
group_at(groups, key) ==
    IF \E g \in DOMAIN groups : groups[g].key = key
    THEN CHOOSE g \in DOMAIN groups : groups[g].key = key
    ELSE 0

\* one classification with a known message: its group is made when its key
\* is new, and the message is added to the group's sources
GroupNext ==
    /\ pipe.stage = "group" /\ pipe.at = "loop" /\ pipe.k <= Len(pipe.classifications)
    /\ LET cls == pipe.classifications[pipe.k] IN
       /\ email_of(pipe, cls) # {}
       /\ LET email == pipe.emails[CHOOSE i \in email_of(pipe, cls) : TRUE]
              subject_group == _normalize_subject(email.subject)
              key == cls.category \o <<":", ":">> \o subject_group
              merge_key == _build_merge_key(cls.category, subject_group)
              with_group ==
                  IF group_at(pipe.groups, key) = 0
                  THEN Append(pipe.groups,
                              [key |-> key, merge_key |-> merge_key,
                               category |-> cls.category,
                               subject_group |-> subject_group,
                               source_ids |-> <<>>])
                  ELSE pipe.groups
              g == group_at(with_group, key)
          IN  pipe' = [pipe EXCEPT
                         !.groups = [with_group EXCEPT
                                        ![g].source_ids = Append(@, email.short_id)],
                         !.k = @ + 1]
    /\ UNCHANGED <<tables, res, req>>

\* a classification whose id no message carries is passed over
GroupSkips ==
    /\ pipe.stage = "group" /\ pipe.at = "loop" /\ pipe.k <= Len(pipe.classifications)
    /\ email_of(pipe, pipe.classifications[pipe.k]) = {}
    /\ pipe' = [pipe EXCEPT !.k = @ + 1]
    /\ UNCHANGED <<tables, res, req>>

GroupReturns ==
    /\ pipe.stage = "group" /\ pipe.at = "loop" /\ pipe.k > Len(pipe.classifications)
    /\ pipe' = [pipe EXCEPT !.at = "returned"]
    /\ UNCHANGED <<tables, res, req>>

NextGroup ==
    \/ GroupNext
    \/ GroupSkips
    \/ GroupReturns

SpecGroup == InitGroup /\ [][NextGroup]_vars

\* ============================================ merge, dedupe and format
\* The stages after grouping, on topic groups one of which may get any
\* answer from the merger.

\* DeduplicateStage._normalize
_normalize(text) ==
    lower(SelectSeq(text, LAMBDA c : lower(<<c>>)[1] \in AlphaNumeric))

\* _dedupe_actions keeping an action unless the same task text was seen
RECURSIVE _dedupe_actions_exact_text(_, _)
_dedupe_actions_exact_text(actions, seen_tasks) ==
    IF actions = <<>> THEN <<>>
    ELSE IF Head(actions).task.text \in seen_tasks
         THEN _dedupe_actions_exact_text(Tail(actions), seen_tasks)
         ELSE <<Head(actions)>>
              \o _dedupe_actions_exact_text(Tail(actions),
                                            seen_tasks \cup {Head(actions).task.text})

\* _dedupe_actions, from the actions left and the normalized tasks seen
RECURSIVE _dedupe_actions(_, _)
_dedupe_actions(actions, seen_tasks) ==
    IF actions = <<>> THEN <<>>
    ELSE LET normalized == _normalize(Head(actions).task.text) IN
         IF normalized \in seen_tasks
         THEN _dedupe_actions(Tail(actions), seen_tasks)
         ELSE <<Head(actions)>>
              \o _dedupe_actions(Tail(actions), seen_tasks \cup {normalized})

\* DeduplicateStage.execute: the handovers with their actions deduplicated,
\* or the TypeError of iterating a task that is no string
dedupe_execute(handovers) ==
    IF \E k \in DOMAIN handovers : \E j \in DOMAIN handovers[k].actions :
           handovers[k].actions[j].task.type # "str"
    THEN [raised |-> "TypeError"]
    ELSE [raised |-> "",
          value |-> [k \in DOMAIN handovers |->
                       [merge_key |-> handovers[k].merge_key,
                        category |-> handovers[k].category,
                        subject_group |-> handovers[k].subject_group,
                        subject |-> handovers[k].subject,
                        summary |-> handovers[k].summary,
                        actions |-> _dedupe_actions(handovers[k].actions, {}),
                        source_ids |-> handovers[k].source_ids,
                        domain_code |-> handovers[k].domain_code,
                        presentation_bucket |-> handovers[k].presentation_bucket]]]

\* FormatOutputStage.execute: the report, or the TypeError of iterating
\* sub_tasks that are no list
format_execute(handovers) ==
    LET Actions == {<<k, j>> \in (DOMAIN handovers) \X (1 .. MaxActions + 3) :
                       j \in DOMAIN handovers[k].actions}
    IN  IF \E a \in Actions : handovers[a[1]].actions[a[2]].sub_tasks.type # "list"
        THEN [raised |-> "TypeError"]
        ELSE [raised |-> "",
              sections |->
                  [cat \in {handovers[k].category : k \in DOMAIN handovers} |->
                      SelectSeq(handovers, LAMBDA h : h.category = cat)],
              meta |->
                  [totalSections |->
                       Cardinality({handovers[k].category : k \in DOMAIN handovers}),
                   totalEmails |->
                       Cardinality({<<k, j>> \in (DOMAIN handovers) \X (1 .. MaxEmails) :
                                       j \in DOMAIN handovers[k].source_ids}),
                   criticalCount |->
                       Cardinality({a \in Actions :
                           handovers[a[1]].actions[a[2]].priority = "CRITICAL"}),
                   highCount |->
                       Cardinality({a \in Actions :
                           handovers[a[1]].actions[a[2]].priority = "HIGH"})]]

\* the groups of a run; the merger answers group `odd` with anything and the
\* others well
InitReport ==
    /\ entries = <<>> /\ drafts = <<>> /\ sections = <<>> /\ items = <<>>
    /\ edits = EmptyBag /\ signoffs = EmptyBag /\ exports = <<>> /\ ledger = EmptyBag
    /\ res = NoResult
    /\ req = [w \in Workers |-> Idle]
    /\ \E n \in 0 .. MaxGroups : \E odd \in 0 .. n :
          pipe = [stage |-> "report", at |-> "merge", failed_in |-> "",
                  groups |-> [k \in 1 .. n |-> TopicGroup(k)], odd |-> odd,
                  answers |-> <<>>, merged |-> <<>>, deduplicated |-> <<>>,
                  report |-> [raised |-> "pending"]]

\* the merger's answer for the next group arrives and is parsed
MergeGroup ==
    /\ pipe.stage = "report" /\ pipe.at = "merge"
    /\ Len(pipe.merged) < Len(pipe.groups)
    /\ LET k == Len(pipe.merged) + 1 IN
       \E a \in IF k = pipe.odd THEN MergerResponses ELSE {NominalResponse} :
          pipe' = [pipe EXCEPT !.answers = Append(@, a),
                               !.merged = Append(@, _merge_single(pipe.groups[k], a))]
    /\ UNCHANGED <<tables, res, req>>

Deduplicate ==
    /\ pipe.stage = "report" /\ pipe.at = "merge"
    /\ Len(pipe.merged) = Len(pipe.groups)
    /\ LET out == dedupe_execute(pipe.merged) IN
       pipe' = IF out.raised # ""
               THEN [pipe EXCEPT !.at = "failed", !.failed_in = "dedupe"]
               ELSE [pipe EXCEPT !.at = "format", !.deduplicated = out.value]
    /\ UNCHANGED <<tables, res, req>>

Format ==
    /\ pipe.stage = "report" /\ pipe.at = "format"
    /\ LET out == format_execute(pipe.deduplicated) IN
       pipe' = IF out.raised # ""
               THEN [pipe EXCEPT !.at = "failed", !.failed_in = "format"]
               ELSE [pipe EXCEPT !.at = "done", !.report = out]
    /\ UNCHANGED <<tables, res, req>>

NextReport ==
    \/ MergeGroup
    \/ Deduplicate
    \/ Format

SpecReport == InitReport /\ [][NextReport]_vars

\* ======================================================= properties
TransitionTable ==
    {<<DRAFT, IN_REVIEW>>, <<IN_REVIEW, ACCEPTED>>, <<ACCEPTED, SIGNED>>, <<SIGNED, EXPORTED>>}

ManagerOps == {"enter_review", "accept_draft", "countersign_draft", "mark_exported"}

\* the draft row the last request named, as it was before the request
Named(r) == drafts[r.draft_id]

\* C1: with requests served one at a time, every change of a draft's state is
\* made by one of the four manager operations and is one step of the chain
\* DRAFT -> IN_REVIEW -> ACCEPTED -> SIGNED -> EXPORTED; no draft row is removed.
C1_TransitionsFollowTable ==
    [][/\ DOMAIN drafts \subseteq DOMAIN drafts'
       /\ \A d \in DOMAIN drafts :
            drafts'[d].state # drafts[d].state
                => /\ <<drafts[d].state, drafts'[d].state>> \in TransitionTable
                   /\ res'.op \in ManagerOps
                   /\ res'.draft_id = d]_vars

C1_Witness ==
    /\ res.op = "mark_exported"
    /\ res.out = "ok"
    /\ drafts[res.draft_id].state = EXPORTED

\* C2: DRAFT -> IN_REVIEW and IN_REVIEW -> ACCEPTED happen only on a call by
\* the draft's outgoing_user_id, ACCEPTED -> SIGNED only on a call by its
\* incoming_user_id; enter_review, accept_draft and countersign_draft called by
\* any other user are rejected and leave every table as it was.
C2_OnlyRecordedActors ==
    [][/\ \A d \in DOMAIN drafts :
            /\ <<drafts[d].state, drafts'[d].state>>
                    \in {<<DRAFT, IN_REVIEW>>, <<IN_REVIEW, ACCEPTED>>}
                  => res'.user_id = drafts[d].outgoing_user_id
            /\ <<drafts[d].state, drafts'[d].state>> = <<ACCEPTED, SIGNED>>
                  => res'.user_id = drafts[d].incoming_user_id
       /\ ( /\ res'.op \in {"enter_review", "accept_draft"}
            /\ HasRow(drafts, res'.draft_id)
            /\ res'.user_id # Named(res').outgoing_user_id )
          => (res'.out # "ok" /\ UNCHANGED tables)
       /\ ( /\ res'.op = "countersign_draft"
            /\ HasRow(drafts, res'.draft_id)
            /\ res'.user_id # Named(res').incoming_user_id )
          => (res'.out # "ok" /\ UNCHANGED tables)]_vars

C2_Witness ==
    /\ res.op = "countersign_draft"
    /\ res.out = "wrong_actor"
    /\ drafts[res.draft_id].state = ACCEPTED
    /\ drafts[res.draft_id].incoming_user_id \in Users \ {res.user_id}

\* C3: accept_draft on a draft that is not IN_REVIEW is rejected for every
\* caller with the error naming the draft's state, and writes nothing (no
\* signoff, no state change).
C3_AcceptNeedsInReview ==
    [][( /\ res'.op = "accept_draft"
         /\ HasRow(drafts, res'.draft_id)
         /\ Named(res').state # IN_REVIEW )
       => /\ res'.out = "invalid_state"
          /\ res'.state = Named(res').state
          /\ UNCHANGED tables]_vars

C3_Witness ==
    /\ res.op = "accept_draft"
    /\ res.out = "invalid_state"
    /\ res.state = SIGNED
    /\ drafts[res.draft_id].state = SIGNED
    /\ SignoffCount(signoffs, res.draft_id, "outgoing") = 1

\* C4 as stated: accept_draft by a user other than outgoing_user_id raises the
\* wrong-actor error whatever the draft's state.
C4_WrongActorWhateverState ==
    [][( /\ res'.op = "accept_draft"
         /\ HasRow(drafts, res'.draft_id)
         /\ res'.user_id # Named(res').outgoing_user_id )
       => res'.out = "wrong_actor"]_vars

\* C4, amended: accept_draft by a user other than outgoing_user_id is rejected
\* in every state and writes nothing; the error is the wrong-actor error when
\* the draft is IN_REVIEW and the error naming the state in every other state.
C4_WrongActorRejected ==
    [][( /\ res'.op = "accept_draft"
         /\ HasRow(drafts, res'.draft_id)
         /\ res'.user_id # Named(res').outgoing_user_id )
       => /\ UNCHANGED tables
          /\ IF Named(res').state = IN_REVIEW
             THEN res'.out = "wrong_actor"
             ELSE res'.out = "invalid_state" /\ res'.state = Named(res').state]_vars

C4_Witness ==
    /\ res.op = "accept_draft"
    /\ res.out = "wrong_actor"
    /\ drafts[res.draft_id].state = IN_REVIEW
    /\ res.user_id # drafts[res.draft_id].outgoing_user_id

\* C5: with requests served one at a time and every store write succeeding, a
\* draft has exactly one outgoing signoff when it is ACCEPTED, SIGNED or
\* EXPORTED and none before, exactly one incoming signoff when it is SIGNED or
\* EXPORTED and none before.
C5_OneSignoffPerType ==
    \A d \in DOMAIN drafts :
        /\ SignoffCount(signoffs, d, "outgoing")
             = (IF drafts[d].state \in {ACCEPTED, SIGNED, EXPORTED} THEN 1 ELSE 0)
        /\ SignoffCount(signoffs, d, "incoming")
             = (IF drafts[d].state \in {SIGNED, EXPORTED} THEN 1 ELSE 0)

C5_Witness ==
    \E d \in DOMAIN drafts, e \in DOMAIN drafts :
        /\ drafts[d].state = EXPORTED
        /\ drafts[e].state = ACCEPTED
        /\ SignoffCount(signoffs, d, "incoming") = 1
        /\ SignoffCount(signoffs, e, "outgoing") = 1

\* the drafts of a vessel and outgoing user that are in state DRAFT
ActiveDrafts(yacht_id, user_id) ==
    {d \in DOMAIN drafts : /\ drafts[d].yacht_id = yacht_id
                           /\ drafts[d].outgoing_user_id = user_id
                           /\ drafts[d].state = DRAFT}

\* C9: generate_draft for a vessel and outgoing user that have a draft in state
\* DRAFT returns that draft's id and writes nothing; so there is never more
\* than one DRAFT-state draft per vessel and outgoing user, and a generate_draft
\* call right after one for the same vessel and user returns the same id.
C9_GenerateIsIdempotent ==
    /\ [](\A y \in Yachts, u \in Users : Cardinality(ActiveDrafts(y, u)) <= 1)
    /\ [][( /\ res'.op = "generate_draft"
            /\ ActiveDrafts(res'.arg, res'.user_id) # {} )
          => /\ res'.ret \in ActiveDrafts(res'.arg, res'.user_id)
             /\ UNCHANGED tables]_vars
    /\ [][( /\ res.op = "generate_draft"
            /\ res'.op = "generate_draft"
            /\ res'.arg = res.arg
            /\ res'.user_id = res.user_id )
          => res'.ret = res.ret]_vars

\* the last generate_draft returned draft 1 although a newer draft exists: it
\* found draft 1 in state DRAFT and created nothing
C9_Witness ==
    /\ res.op = "generate_draft"
    /\ res.ret = 1
    /\ Len(drafts) = 2
    /\ drafts[1].state = DRAFT

\* C10 as stated: after a successful export request on a SIGNED draft the
\* draft is EXPORTED and the export record created is linked to it; an export
\* request on a draft in any other state is rejected and creates no record.
C10_ExportMovesToExported ==
    /\ []((res.op = "export" /\ res.out = "ok")
            => /\ exports[res.ret].draft_id = res.draft_id
               /\ drafts[res.draft_id].state = EXPORTED)
    /\ [][( /\ res'.op = "export"
            /\ HasRow(drafts, res'.draft_id)
            /\ Named(res').state # SIGNED )
          => (res'.out # "ok" /\ exports' = exports)]_vars

\* ------------------------------------------------ overlapping requests
StateRank(state) ==
    CASE state = DRAFT -> 0
      [] state = IN_REVIEW -> 1
      [] state = ACCEPTED -> 2
      [] state = SIGNED -> 3
      [] state = EXPORTED -> 4

\* number of ledger rows of an event type for a draft
EventCount(lg, draft_id, event) ==
    LET rows == {r \in BagToSet(lg) :
                    r.entity_id = draft_id /\ r.event_type = event}
        RECURSIVE Sum(_)
        Sum(S) == IF S = {} THEN 0
                  ELSE LET r == CHOOSE x \in S : TRUE
                       IN CopiesIn(r, lg) + Sum(S \ {r})
    IN Sum(rows)

\* C6 as stated: also when transition requests on a draft overlap, its state
\* never moves backward, and a write of the state changes it only if the
\* stored state is still the state the request checked.
C6_NeverBackwardUnderOverlap ==
    [][/\ \A d \in DOMAIN drafts :
            StateRank(drafts'[d].state) >= StateRank(drafts[d].state)
       /\ \A w \in Workers :
            ( /\ req'[w].pc = "updated"
              /\ req[w].pc # "updated"
              /\ drafts' # drafts )
            => drafts[req[w].draft_id].state = req[w].state]_vars

\* C7 as stated: when accept_draft (countersign_draft) requests by the
\* authorised user overlap, the draft gets at most one signoff of that type
\* and at most one of the requests succeeds (each success logs one event).
C7_OneSignoffUnderOverlap ==
    \A d \in DOMAIN drafts :
        /\ SignoffCount(signoffs, d, "outgoing") <= 1
        /\ SignoffCount(signoffs, d, "incoming") <= 1
        /\ EventCount(ledger, d, "handover_accepted") <= 1
        /\ EventCount(ledger, d, "handover_signed") <= 1

\* ------------------------------------------------------ item operations
ItemOps == {"edit_draft_item", "merge_draft_items", "delete_draft_item"}

\* C8 as stated: an edit, merge or delete request naming a draft that is not
\* IN_REVIEW is rejected with the error naming the draft's state and leaves
\* every item row and every edit-history row as it was; such a request
\* succeeds only on a draft that is IN_REVIEW.
C8_ItemOpsNameTheState ==
    [][/\ ( /\ res'.op \in ItemOps
            /\ HasRow(drafts, res'.draft_id)
            /\ Named(res').state # IN_REVIEW )
          => /\ res'.out = "invalid_state"
             /\ res'.state = Named(res').state
             /\ UNCHANGED <<items, edits>>
       /\ (items' # items \/ edits' # edits \/ (res'.op \in ItemOps /\ res'.out = "ok"))
          => /\ res'.op \in ItemOps
             /\ HasRow(drafts, res'.draft_id)
             /\ Named(res').state = IN_REVIEW]_vars

\* C8, amended: an edit, merge or delete request naming a draft that is not
\* IN_REVIEW is rejected and leaves every item row and every edit-history row
\* as it was; the error names the draft's state, except for a merge request
\* with fewer than two item ids, whose error is about the number of ids.  The
\* item and edit-history tables change only on such a request naming a draft
\* that is IN_REVIEW.
C8_ItemOpsNeedInReview ==
    [][/\ ( /\ res'.op \in ItemOps
            /\ HasRow(drafts, res'.draft_id)
            /\ Named(res').state # IN_REVIEW )
          => /\ UNCHANGED <<items, edits>>
             /\ \/ res'.out = "invalid_state" /\ res'.state = Named(res').state
                \/ res'.op = "merge_draft_items" /\ res'.out = "validation"
       /\ (items' # items \/ edits' # edits \/ (res'.op \in ItemOps /\ res'.out = "ok"))
          => /\ res'.op \in ItemOps
             /\ HasRow(drafts, res'.draft_id)
             /\ Named(res').state = IN_REVIEW]_vars

\* a merge is refused on a SIGNED draft whose items were edited and merged
\* while it was under review
C8_Witness ==
    /\ res.op = "merge_draft_items"
    /\ res.out = "invalid_state"
    /\ res.state = SIGNED
    /\ drafts[res.draft_id].state = SIGNED
    /\ edits # EmptyBag
    /\ Len(items) = 3

\* ------------------------------------------------------------ merges
\* the rows a successful merge request named, as they were before it
MergedIds(r) == r.arg

\* C11: the item a merge of two or more items creates is critical exactly
\* when one of the merged items was, and its source_entry_ids are the union
\* of theirs with no id repeated, in whatever order the store returned them.
C11_MergedCriticalAndSources ==
    [][(res'.op = "merge_draft_items" /\ res'.out = "ok")
       => LET merged == items'[res'.ret]
          IN /\ Cardinality(MergedIds(res')) >= 2
             /\ merged.is_critical = (\E i \in MergedIds(res') : items[i].is_critical)
             /\ Range(merged.source_entry_ids)
                  = UNION {Range(items[i].source_entry_ids) : i \in MergedIds(res')}
             /\ Cardinality(Range(merged.source_entry_ids))
                  = Len(merged.source_entry_ids)]_vars

\* a merge of rows that share a source entry, one critical and one not
C11_Witness ==
    /\ res.op = "merge_draft_items"
    /\ res.out = "ok"
    /\ items[res.ret].is_critical
    /\ \E i, j \in MergedIds(res) :
          /\ i # j
          /\ ~items[i].is_critical
          /\ Range(items[i].source_entry_ids) \cap Range(items[j].source_entry_ids) # {}

\* the lowest item_order among rows
LowestOrder(its, ids) ==
    CHOOSE o \in {its[i].item_order : i \in ids} :
        \A i \in ids : o <= its[i].item_order

\* C12 as stated: the item a merge creates carries the lowest item_order among
\* the merged items, in whatever order the store returned them.
C12_MergedLowestOrder ==
    [][(res'.op = "merge_draft_items" /\ res'.out = "ok")
       => items'[res'.ret].item_order = LowestOrder(items, MergedIds(res'))]_vars

\* C13: no item row is ever removed; a delete only sets is_suppressed on the
\* row named; a successful merge adds exactly one row and leaves every merged
\* row stored, suppressed and otherwise as it was.
C13_ItemsNeverRemoved ==
    [][/\ Len(items') >= Len(items)
       /\ (res'.op = "delete_draft_item" /\ res'.out = "ok")
            => items' = [items EXCEPT ![res'.arg].is_suppressed = TRUE]
       /\ (res'.op = "merge_draft_items" /\ res'.out = "ok")
            => /\ Len(items') = Len(items) + 1
               /\ \A i \in DOMAIN items :
                    items'[i] = IF i \in MergedIds(res')
                                THEN [items[i] EXCEPT !.is_suppressed = TRUE]
                                ELSE items[i]]_vars

\* the item a merge created is deleted: three rows stay stored, all suppressed
C13_Witness ==
    /\ res.op = "delete_draft_item"
    /\ res.out = "ok"
    /\ res.arg = 3
    /\ Len(items) = 3
    /\ \A i \in DOMAIN items : items[i].is_suppressed

\* ---------------------------------------------------------- the run
Events(kind) == SelectSeq(pipe.log, LAMBDA e : e.ev = kind)

\* position of the k-th event of a kind in the log
RECURSIVE EventAt(_, _, _)
EventAt(kind, k, from) ==
    IF pipe.log[from].ev = kind
    THEN IF k = 1 THEN from ELSE EventAt(kind, k - 1, from + 1)
    ELSE EventAt(kind, k, from + 1)

\* stages are called in the order of ProgressStages, each once, each after
\* the return of the one before and with that stage's output as argument;
\* reports carry 1, 2, ... and total 8, each made just before its stage is
\* called
RunInSequence ==
    pipe.stage = "run" =>
      /\ \A i \in DOMAIN Events("call") :
            /\ Events("call")[i].stage = ProgressStages[i]
            /\ i > 1 => /\ Events("call")[i].args[1].by = ProgressStages[i - 1]
                        /\ Len(Events("return")) >= i - 1
                        /\ EventAt("return", i - 1, 1) < EventAt("call", i, 1)
            /\ pipe.callback => EventAt("report", i, 1) = EventAt("call", i, 1) - 1
      /\ \A i \in DOMAIN Events("return") : Events("return")[i].stage = ProgressStages[i]
      /\ \A i \in DOMAIN Events("report") :
            /\ Events("report")[i].stage_number = i
            /\ Events("report")[i].total_stages = 8
            /\ Events("report")[i].stage = ProgressStages[i]
      /\ (pipe.at = "done" /\ pipe.callback)
            => /\ Len(Events("report")) = 8
               /\ Events("report")[8].stage = "complete"

InFlight == {i \in DOMAIN pipe.tasks : pipe.tasks[i].pc = "in_flight"}
Done == {i \in DOMAIN pipe.tasks : pipe.tasks[i].pc = "done"}

\* C15: execute on N messages returns N results and result i carries the
\* sequence id of message i, whatever the completion order and whatever the
\* classifier returns.
C15_ResultsMatchMessages ==
    (pipe.stage = "classify" /\ ~pipe.returned.pending)
      => /\ Len(pipe.returned.results) = Len(pipe.inputs)
         /\ \A i \in DOMAIN pipe.inputs :
               pipe.returned.results[i].short_id = pipe.inputs[i].short_id

\* C16: a failed classifier call gives its message GENERAL, confidence 0.0
\* and the message's own id; a category outside the enum becomes GENERAL;
\* confidence is 0.0 only for failed calls; execute still returns one result
\* per message; and the end of one call changes no other task's result.
C16_FailureStaysLocal ==
    /\ [](pipe.stage = "classify" =>
          /\ \A i \in Done :
                /\ pipe.tasks[i].answer.raised
                     => pipe.tasks[i].result =
                          ClassificationResult(pipe.inputs[i].short_id, GENERAL, "0.0")
                /\ (~pipe.tasks[i].answer.raised
                     /\ get(pipe.tasks[i].answer.category, GENERAL) \notin HandoverCategory)
                     => pipe.tasks[i].result.category = GENERAL
                /\ pipe.tasks[i].result.confidence = "0.0"
                     <=> pipe.tasks[i].answer.raised
                /\ pipe.tasks[i].result.category \in HandoverCategory
          /\ ~pipe.returned.pending
                => /\ Len(pipe.returned.results) = Len(pipe.inputs)
                   /\ \A i \in DOMAIN pipe.inputs :
                         pipe.returned.results[i] = pipe.tasks[i].result)
    /\ [][pipe.stage = "classify" =>
            \A i \in Done : pipe'.tasks[i].result = pipe.tasks[i].result]_vars

C16_Witness ==
    /\ pipe.stage = "classify"
    /\ ~pipe.returned.pending
    /\ Len(pipe.inputs) = 3
    /\ pipe.tasks[2].answer.raised
    /\ pipe.returned.results[2].confidence = "0.0"
    /\ ~pipe.tasks[1].answer.raised
    /\ pipe.tasks[1].answer.category = {"Nonsense"}
    /\ pipe.returned.results[1].category = GENERAL
    /\ pipe.returned.results[3].category = "Electrical"

\* C17: the calls in flight never exceed the stage's max_concurrent, for
\* the classifier and for the merger alike.
C17_InFlightBounded ==
    pipe.stage \in {"classify", "merge"} => Cardinality(InFlight) <= pipe.max_concurrent

C17_Witness ==
    /\ pipe.stage = "merge"
    /\ Len(pipe.inputs) = 3
    /\ pipe.max_concurrent = 2
    /\ Cardinality(InFlight) = 2
    /\ \E i \in DOMAIN pipe.tasks : pipe.tasks[i].pc = "waiting"

\* ------------------------------------------------------ extract stage
\* C18: execute returns one ExtractedEmail per raw message in input order,
\* message k carrying the id E<start_index + k - 1>: no gaps, no repeats.
C18_SequenceIds ==
    (pipe.stage = "extract" /\ pipe.at = "returned")
      => /\ Len(pipe.extracted) = Len(pipe.emails)
         /\ \A k \in DOMAIN pipe.emails :
               /\ pipe.extracted[k].email_id = k
               /\ pipe.extracted[k].short_id = <<"E", pipe.start_index + k - 1>>
         /\ \A j, k \in DOMAIN pipe.extracted :
               j # k => pipe.extracted[j].short_id # pipe.extracted[k].short_id

C18_Witness ==
    /\ pipe.stage = "extract"
    /\ pipe.at = "returned"
    /\ pipe.start_index = 2
    /\ Len(pipe.extracted) = 3
    /\ pipe.extracted[3].short_id = <<"E", 4>>
    /\ pipe.extracted[1].body_text.text = <<"Generator", " ", "tripped">>
    /\ pipe.emails[1].body.contentType = {"html"}

\* C19: execute never raises for malformed input: an empty body map, a
\* missing or null content under content type html, an empty or null sender
\* descriptor, an unparseable timestamp.
C19_ExtractNeverRaises ==
    pipe.stage = "extract" => pipe.at # "raised"

\* -------------------------------------------------------- group stage
\* the groups holding message i
GroupsOf(i) ==
    {g \in DOMAIN pipe.groups :
        \E j \in DOMAIN pipe.groups[g].source_ids :
            pipe.groups[g].source_ids[j] = pipe.emails[i].short_id}

\* two classified messages with the same category and the same normalized
\* subject are in the same group
SameTopicSameGroup ==
    (pipe.stage = "group" /\ pipe.at = "returned") =>
      \A i, j \in {k \in DOMAIN pipe.emails :
                      pipe.classifications[k].short_id = pipe.emails[k].short_id} :
        (/\ pipe.classifications[i].category = pipe.classifications[j].category
         /\ _normalize_subject(pipe.emails[i].subject)
              = _normalize_subject(pipe.emails[j].subject))
          => /\ GroupsOf(i) = GroupsOf(j)
             /\ Cardinality(GroupsOf(i)) = 1

\* C20: merge_key uniquely identifies a TopicGroup of one run: no two
\* distinct groups carry the same merge_key, and two classified messages
\* with the same category and normalized subject are in the same group.
C20_MergeKeyIdentifiesGroup ==
    /\ SameTopicSameGroup
    /\ (pipe.stage = "group" /\ pipe.at = "returned") =>
          \A g, h \in DOMAIN pipe.groups :
              g # h => pipe.groups[g].merge_key # pipe.groups[h].merge_key

\* C21: a reply to or forward of a message (also of a reply) has the
\* normalized subject of the original, so with the same category the two
\* fall into the same TopicGroup and yield one MergedHandover.
C21_RepliesJoinTheOriginal ==
    LET \* t is s under one more reply or forward marker, in some letter case
        IsReplyTo(t, s) ==
            \E m \in {<<"R", "E", ":">>, <<"r", "e", ":">>, <<"F", "W", ":">>,
                       <<"F", "w", "d", ":">>, <<"f", "w", "d", ":">>} :
                t = m \o <<" ">> \o s
    IN
    (pipe.stage = "group" /\ pipe.at = "returned") =>
      \A i, j \in {k \in DOMAIN pipe.emails :
                      pipe.classifications[k].short_id = pipe.emails[k].short_id} :
        (/\ pipe.classifications[i].category = pipe.classifications[j].category
         /\ IsReplyTo(pipe.emails[j].subject, pipe.emails[i].subject))
          => /\ _normalize_subject(pipe.emails[j].subject)
                  = _normalize_subject(pipe.emails[i].subject)
             /\ GroupsOf(i) = GroupsOf(j)

\* ------------------------------------------- merge, dedupe and format
\* C22: an action whose priority is missing or unknown is recorded with
\* priority NORMAL, and the group's other actions, subject and summary are
\* kept as returned.
C22_UnknownPriorityIsNormal ==
    pipe.stage = "report" =>
      \A k \in DOMAIN pipe.merged :
        LET answer == pipe.answers[k]
            handover == CHOOSE h \in answer.handover : TRUE
            returned == (CHOOSE a \in handover.actions : TRUE).elems
        IN  (/\ ~answer.raised /\ answer.type = "dict"
             /\ answer.handover # {} /\ answer.handover # {PyNone}
             /\ handover.actions # {} /\ handover.actions # {PyNone})
            => /\ pipe.merged[k].subject = get(handover.subject, "generator")
               /\ pipe.merged[k].summary = get(handover.summary, "")
               /\ Len(pipe.merged[k].actions) = Len(returned)
               /\ \A i \in DOMAIN returned :
                     /\ pipe.merged[k].actions[i].task = get(returned[i].task, Str(<<>>))
                     /\ pipe.merged[k].actions[i].priority =
                           IF returned[i].priority \subseteq Priority /\ returned[i].priority # {}
                           THEN get(returned[i].priority, "NORMAL") ELSE "NORMAL"

\* C23: whatever the merger does for one group, the run completes with a
\* report holding one handover per topic group; dedupe and format do not
\* fail.
C23_OneGroupNeverFailsTheRun ==
    pipe.stage = "report" =>
      /\ pipe.at # "failed"
      /\ pipe.at = "done" =>
            Cardinality({<<cat, i>> \in (DOMAIN pipe.report.sections) \X (1 .. MaxGroups + 1) :
                            i \in DOMAIN pipe.report.sections[cat]}) = Len(pipe.groups)

\* C24: dedupe returns the same handovers in the same order, every field but
\* actions unchanged; the new actions are the old ones that are the first of
\* their normalized task, in order; a second application changes nothing.
C24_DedupeKeepsFirstOfEachTask ==
    (pipe.stage = "report" /\ pipe.at \in {"format", "done"}) =>
      /\ Len(pipe.deduplicated) = Len(pipe.merged)
      /\ \A k \in DOMAIN pipe.merged :
            LET old == pipe.merged[k].actions
                new == pipe.deduplicated[k].actions
                keep == {i \in DOMAIN old :
                            \A j \in 1 .. (i - 1) :
                                _normalize(old[j].task.text) # _normalize(old[i].task.text)}
            IN  /\ [pipe.deduplicated[k] EXCEPT !.actions = old] = pipe.merged[k]
                /\ Len(new) = Cardinality(keep)
                /\ \A i \in keep : new[Cardinality({j \in keep : j <= i})] = old[i]
                /\ \A i, j \in DOMAIN new :
                      i # j => _normalize(new[i].task.text) # _normalize(new[j].task.text)
      /\ dedupe_execute(pipe.deduplicated).value = pipe.deduplicated

C24_Witness ==
    /\ pipe.stage = "report" /\ pipe.at = "format"
    /\ Len(pipe.merged) = 2
    /\ Len(pipe.merged[1].actions) = 2
    /\ pipe.merged[1].actions[1].task.text = <<"f", "i", "x", "!">>
    /\ pipe.merged[1].actions[2].task.text = <<"F", "i", "x">>
    /\ Len(pipe.deduplicated[1].actions) = 1
    /\ pipe.deduplicated[1].actions[1].task.text = <<"f", "i", "x", "!">>
    /\ Len(pipe.merged[2].actions) = 3
    /\ Len(pipe.deduplicated[2].actions) = 2
    /\ pipe.deduplicated[2].actions[1].task.text = <<"F", "i", "x">>

\* ------------------------------------------------- the generated draft
\* C25: in a generated draft the sections follow the bucket order with
\* section_order 1, 2, ... over the non-empty buckets, item_order in each
\* section is 1, 2, ... without gaps, every candidate entry yields exactly
\* one item, and in each section the items of critical entries come before
\* the items of non-critical ones.
C25_GeneratedDraftOrder ==
    \A d \in DOMAIN drafts :
      LET secs == {x \in DOMAIN sections : sections[x].draft_id = d}
          its(x) == {i \in DOMAIN items : items[i].draft_id = d /\ items[i].section_id = x}
          pos(b) == CHOOSE k \in DOMAIN BUCKET_ORDER : BUCKET_ORDER[k] = b
          candidates == {e \in DOMAIN entries :
                            /\ entries[e].yacht_id = drafts[d].yacht_id
                            /\ entries[e].status = "candidate"}
      IN  /\ {sections[x].section_order : x \in secs} = 1 .. Cardinality(secs)
          /\ \A x, y \in secs :
                sections[x].section_order < sections[y].section_order
                  <=> pos(sections[x].section_bucket) < pos(sections[y].section_bucket)
          /\ \A x \in secs :
                /\ its(x) # {}
                /\ {items[i].item_order : i \in its(x)} = 1 .. Cardinality(its(x))
                /\ \A i, j \in its(x) :
                      (items[i].is_critical /\ ~items[j].is_critical)
                        => items[i].item_order < items[j].item_order
          /\ \A e \in candidates :
                Cardinality({i \in DOMAIN items :
                                items[i].draft_id = d /\ items[i].source_entry_ids = <<e>>}) = 1

\* ------------------------------------------------ the /review endpoint
\* C26: the /review endpoint accepts exactly the requests enter_review
\* accepts: it moves a draft from DRAFT to IN_REVIEW only for the draft's
\* outgoing user, and rejects every other caller without changing the state.
C26_ReviewEndpointKeepsTheGuard ==
    [][res'.op = "enter_review_state" =>
         IF /\ HasRow(drafts, res'.draft_id)
            /\ enter_review_error(drafts[res'.draft_id], res'.user_id).out = "ok"
         THEN /\ res'.out = "ok"
              /\ drafts'[res'.draft_id].state = IN_REVIEW
         ELSE /\ res'.out # "ok"
              /\ drafts' = drafts]_vars


\* ------------------------------------------------------ frozen content
\* C27: once a draft is ACCEPTED, SIGNED or EXPORTED, no edit, merge, delete
\* or add-entry request, whatever draft and items it names, changes the text,
\* the edit count or the suppression flag of an item of that draft, or adds an
\* item or a section to it.  An item is of the draft its section is of.
C27_AcceptedContentIsFrozen ==
    [][\A d \in DOMAIN drafts :
         LET Content(its, secs) ==
                 [i \in {k \in DOMAIN its : secs[its[k].section_id].draft_id = d} |->
                     <<its[i].summary_text, its[i].edit_count, its[i].is_suppressed>>]
             Sections(secs) == {k \in DOMAIN secs : secs[k].draft_id = d}
         IN /\ drafts[d].state \in {ACCEPTED, SIGNED, EXPORTED}
            /\ res'.op \in ItemOps \cup {"add_entry_to_existing_draft"}
            => /\ Content(items', sections') = Content(items, sections)
               /\ Sections(sections') = Sections(sections)]_vars

\* ------------------------------------------------------ no incoming user
\* C28: a draft created without an incoming user never reaches SIGNED or
\* EXPORTED: a countersign request on it is rejected whoever calls (also a
\* caller with an empty user id) and leaves the draft and the signoffs as they
\* were, and no operation changes the incoming_user_id of a draft.
C28_UnsetIncomingNeverSigned ==
    /\ [](\A d \in DOMAIN drafts :
             drafts[d].incoming_user_id = NoUser
             => drafts[d].state \notin {SIGNED, EXPORTED})
    /\ [][/\ \A d \in DOMAIN drafts :
                drafts'[d].incoming_user_id = drafts[d].incoming_user_id
          /\ /\ res'.op = "countersign_draft"
             /\ HasRow(drafts, res'.draft_id)
             /\ drafts[res'.draft_id].incoming_user_id = NoUser
             => /\ res'.out # "ok"
                /\ drafts' = drafts
                /\ signoffs' = signoffs]_vars

\* a caller with an empty user id was turned away on an ACCEPTED draft that
\* has no incoming user
C28_Witness ==
    /\ res.op = "countersign_draft"
    /\ res.user_id = NoUser
    /\ res.out = "no_incoming_user"
    /\ HasRow(drafts, res.draft_id)
    /\ drafts[res.draft_id].state = ACCEPTED
    /\ drafts[res.draft_id].incoming_user_id = NoUser

\* ------------------------------------------------------ failed writes
\* C29: also when a store call fails part-way through accept_draft or
\* countersign_draft, a draft has an outgoing signoff only if it is ACCEPTED,
\* SIGNED or EXPORTED and an incoming signoff only if it is SIGNED or
\* EXPORTED, and never two signoffs of one type.
C29_NoSignoffWithoutItsState ==
    \A d \in DOMAIN drafts :
        /\ SignoffCount(signoffs, d, "outgoing") > 0
           => drafts[d].state \in {ACCEPTED, SIGNED, EXPORTED}
        /\ SignoffCount(signoffs, d, "incoming") > 0
           => drafts[d].state \in {SIGNED, EXPORTED}
        /\ SignoffCount(signoffs, d, "outgoing") <= 1
        /\ SignoffCount(signoffs, d, "incoming") <= 1

\* ------------------------------------------------------ fan-out ends
\* C30: when every classifier and merger call ends, execute returns, with one
\* result per input, however many inputs there are: a call that returned and
\* a call that raised both give their permit back.
C30_ExecuteReturns ==
    <>(/\ ~pipe.returned.pending
       /\ Len(pipe.returned.results) = Len(pipe.inputs))

\* execute returned on more inputs than permits, one call having raised and
\* one having answered
C30_Witness ==
    /\ ~pipe.returned.pending
    /\ Len(pipe.inputs) > pipe.max_concurrent
    /\ Len(pipe.returned.results) = Len(pipe.inputs)
    /\ \E i, j \in DOMAIN pipe.tasks :
          pipe.tasks[i].answer.raised /\ ~pipe.tasks[j].answer.raised
====
